---- MODULE Spec2Model ----
(***************************************************************************)
(* State-machine model of the Exonum on-chain Supervisor service:          *)
(* the six supervisor transactions of transactions.rs, executed one at a   *)
(* time against the supervisor schema, and the per-block hook that         *)
(* applies matured configs, flushes migrations and times requests out.     *)
(*                                                                         *)
(* A transaction is a function from the state it is executed in, its       *)
(* author and its payload to an outcome: the status it returns, the state  *)
(* it leaves and the supervisor-extension calls it makes.  The state is    *)
(* the record held by the variable `st`.                                   *)
(***************************************************************************)
EXTENDS Integers, FiniteSets, Sequences, TLC

VARIABLES
    st,             \* core view, supervisor schema and dispatcher registry
    result,         \* status of the last transaction (or the hook's log line)
    calls,          \* supervisor-extension calls made by the last step
    voters,         \* history: authors whose propose / vote for the pending proposal was accepted
    registrations,  \* history: artifact -> how often start_artifact_registration was invoked
    input,          \* the proposal under verification (specification SpecVerifier)
    db              \* the TemporaryDB: its tables, its lock, its writer and its reader

history_vars == <<voters, registrations>>
vars == <<st, result, calls, history_vars, input, db>>

----------------------------------------------------------------------------
(* Bounds of the model. *)

MaxHeight == 2

----------------------------------------------------------------------------
(* Authors and the core consensus view. *)

Validators == {"v1", "v2", "v3", "v4"}
Outsider == "x"
NoAuthor == "none"
Authors == Validators \cup {Outsider, NoAuthor}

\* Consensus configurations: four validators, three (v4 dropped), two.
ConsensusConfigs == {"c0", "c1", "c2"}
InvalidConsensusConfig == "bad"

\* consensus_config().validator_keys of a consensus configuration.
validator_keys(cfg) ==
    IF cfg = "c1" THEN Validators \ {"v4"}
    ELSE IF cfg = "c2" THEN {"v1", "v2"}
    ELSE Validators

\* core_schema.validator_id(author)
validator_id(s, author) == author \in validator_keys(s.consensus_config)

\* ConsensusConfig::validate
consensus_validate(cfg) == cfg \in ConsensusConfigs

Modes == {"Simple", "Decentralized"}

\* Approval threshold of a supervisor mode over n validators.
quorum_of_majority(m, n) == (2 * n) \div 3 + 1
quorum(m, n) == IF m = "Simple" THEN 1 ELSE (2 * n) \div 3 + 1

----------------------------------------------------------------------------
(* The multisig index: pairs <<id, key>>. *)

confirmations(index, id) == {e[2] : e \in {x \in index : x[1] = id}}

\* MultisigIndex::confirm
confirm(index, id, author) == index \cup {<<id, author>>}

\* MultisigIndex::confirmed_by
confirmed_by(index, id, author) == <<id, author>> \in index

\* MultisigIndex::intersect_with_validators: the confirmations of current
\* validators reach the quorum of the supervisor mode.
intersect_with_validators(m, index, id, keys) ==
    Cardinality(confirmations(index, id) \cap keys) >= quorum(m, Cardinality(keys))

\* Mode::config_approved
config_approved(m, id, index, keys) ==
    Cardinality(confirmations(index, id) \cap keys) >= quorum(m, Cardinality(keys))

\* Mode::deploy_approved
deploy_approved(m, deploy, index, count) ==
    Cardinality(confirmations(index, deploy)) >= quorum(m, count)

\* Mode::migration_approved
migration_approved(m, request, index, count) ==
    Cardinality(confirmations(index, request)) >= quorum(m, count)

validator_count(s) == Cardinality(validator_keys(s.consensus_config))

----------------------------------------------------------------------------
(* Maps of the schema: functions whose domain is the set of stored keys. *)

EmptyMap == [k \in {} |-> 0]
contains(map, key) == key \in DOMAIN map
put(map, key, value) == [k \in DOMAIN map \cup {key} |-> IF k = key THEN value ELSE map[k]]
remove(map, key) == [k \in DOMAIN map \ {key} |-> map[k]]

\* AsyncEventState
Pending == [phase |-> "Pending", height |-> 0, error |-> "none"]
Succeed == [phase |-> "Succeed", height |-> 0, error |-> "none"]
Failed(h, e) == [phase |-> "Failed", height |-> h, error |-> e]
is_failed(state) == state.phase = "Failed"

----------------------------------------------------------------------------
(* Payloads. *)

ConsensusChange(cfg) == [tag |-> "Consensus", config |-> cfg]

ChangeLists ==
    { <<ConsensusChange("c1")>>,
      <<ConsensusChange("c1"), ConsensusChange("c0")>>,
      <<ConsensusChange(InvalidConsensusConfig)>> }

\* The configuration numbers proposals carry.
ConfigNumbers == {0, 1}

ConfigProposes ==
    [actual_from : 0 .. (MaxHeight + 1),
     configuration_number : ConfigNumbers,
     changes : ChangeLists]

\* ConfigPropose::object_hash: an injective digest of the proposal's fields.
object_hash(propose) ==
    <<"propose", propose.actual_from, propose.configuration_number, propose.changes>>

\* A digest that belongs to no proposal (crypto::hash(&[0]) in the tests).
WrongHash == <<"propose", 0, 0, <<>>>>

\* The hashes a vote may carry: the pending proposal's, the hash the pending
\* proposal had before `actual_from` was defaulted, and a wrong one.
VoteHashes(s) ==
    {WrongHash}
    \cup {e.propose_hash : e \in s.pending_proposal}
    \cup {object_hash([e.config_propose EXCEPT !.actual_from = 0]) : e \in s.pending_proposal}

Artifacts == {"a1"}
InvalidArtifact == "a?"
DeploySpecs == {"spec"}
Deadlines == {0, 1}

DeployRequests ==
    [artifact : Artifacts \cup {InvalidArtifact},
     spec : DeploySpecs,
     deadline_height : Deadlines]

\* ArtifactId::validate
artifact_validate(artifact) == artifact \in Artifacts

\* Result of the local deployment, as carried by DeployResult.
DeployOutcomes == {"Ok", "DeployError"}
DeployResults == [request : DeployRequests, result : DeployOutcomes]

Services == {"svc"}
UnknownService == "ghost"
GenesisVersion == 0
NewVersion == 1

MigrationDeadlines == {1}

MigrationRequests ==
    [new_artifact : [name : Artifacts, version : {NewVersion}],
     service : Services \cup {UnknownService},
     deadline_height : MigrationDeadlines,
     seed : {0}]

NoHash == "none"
Hashes == {"h1", "h2"}
\* Result of the local migration, as carried by MigrationResult.
MigrationOutcomes == Hashes \cup {"MigrationError"}
MigrationResults == [request : MigrationRequests, status : MigrationOutcomes]

\* What the runtime answers to initiate_migration.
MigrationTypes == {"FastForward", "Async", "InitError"}

\* What a supervisor extension answers to start_artifact_registration,
\* commit_migration or rollback_migration.
ExtensionAnswers == {"Ok", "Refused"}

----------------------------------------------------------------------------
(* Services and artifacts as the dispatcher shows them, and the config     *)
(* changes that concern them.                                              *)

GenesisArtifact == "a0"       \* the artifact of the services started at genesis
SpareArtifact == "a2"         \* deployed, used by no service
UnknownArtifact == "a9"       \* never deployed

MainInstance == 1             \* instance id of service "svc"
AuxInstance == 2              \* instance id of service "aux"
AbsentInstance == 3           \* no service has this id at genesis

\* InstanceState as the verifier reads it: spec.name, spec.artifact, status and
\* whether associated_artifact() is present.
Instance(name, artifact, status, associated) ==
    [name |-> name, artifact |-> artifact, status |-> status, associated |-> associated]

ValidNames == {"svc", "aux", "new"}
InvalidName == "new service"

ServiceChange(instance_id, params) ==
    [tag |-> "Service", instance_id |-> instance_id, params |-> params]
StartService(artifact, name) ==
    [tag |-> "StartService", artifact |-> artifact, name |-> name]
StopService(instance_id) == [tag |-> "StopService", instance_id |-> instance_id]
FreezeService(instance_id) == [tag |-> "FreezeService", instance_id |-> instance_id]
ResumeService(instance_id) == [tag |-> "ResumeService", instance_id |-> instance_id]
UnloadArtifact(artifact_id) == [tag |-> "UnloadArtifact", artifact_id |-> artifact_id]

----------------------------------------------------------------------------
(* Outcomes of a transaction. *)

\* `written` is the schema as the handler has written it when it returns,
\* `state` the schema the transaction leaves.
Done(s, c) == [status |-> "Ok", state |-> s, written |-> s, calls |-> c]

\* A transaction that fails before it has written anything to the schema `s`.
Abort(s, error) == [status |-> error, state |-> s, written |-> s, calls |-> {}]

\* The state a failed transaction leaves: the writes that led from `s0`, the
\* state it started in, to `s` are discarded.
writes_kept(s0, s) == s
rolled_back(s0, s) == s0

\* A transaction that fails after it has written `written`, either by an
\* error of its own or because a supervisor extension refused a call of `c`.
Cancelled(s0, written, error, c) ==
    [status |-> error, state |-> rolled_back(s0, written), written |-> written,
     calls |-> c]

\* get_validator: the caller has an author and the author is a validator.
get_validator_any_author(s, author) == author # NoAuthor
get_validator(s, author) == author # NoAuthor /\ validator_id(s, author)

----------------------------------------------------------------------------
(* verify_config_changes *)

\* ConfigChange::register_instance: the instance a change concerns, if any.
maybe_instance_id(change) ==
    IF change.tag \in {"StopService", "FreezeService", "ResumeService", "Service"}
    THEN {change.instance_id} ELSE {}

\* `!modified_instances.insert(instance_id)`: the instance is already modified.
instance_modified_twice_never(change, modified_instances) == FALSE
instance_modified_twice(change, modified_instances) ==
    maybe_instance_id(change) \cap modified_instances # {}

\* InstanceSpec::is_valid_name
is_valid_name(name) == name \in ValidNames

\* dispatcher_data.get_instance(name).is_some()
instance_exists_never(s, name) == FALSE
instance_exists(s, name) ==
    \E id \in DOMAIN s.service_instances : s.service_instances[id].name = name

\* StartService::validate
start_service_validate(s, change) ==
    IF ~is_valid_name(change.name) THEN "InvalidInstanceName"
    ELSE IF change.artifact \notin s.dispatcher_artifacts THEN "UnknownArtifact"
    ELSE IF change.artifact \notin s.active_artifacts THEN "UnknownArtifact"
    ELSE IF instance_exists(s, change.name) THEN "InstanceExists"
    ELSE "Ok"

\* The source states of the transitions of a service.
can_be_stopped(status) == status = "Active"
can_be_frozen(status) == status = "Active"
can_be_resumed(status) == status = "Frozen"

InstanceStatuses == {"None", "Active", "Stopped", "Frozen", "Migrating"}

\* get_instance followed by the status check of validate_status; `allowed` are
\* the statuses for which check_fn holds.
validate_status(s, instance_id, allowed) ==
    IF instance_id \notin DOMAIN s.service_instances THEN "MalformedConfigPropose"
    ELSE IF s.service_instances[instance_id].status \notin allowed
         THEN "MalformedConfigPropose"
    ELSE "Ok"

\* StopService::validate
stop_service_validate(s, change) ==
    validate_status(s, change.instance_id,
                    {status \in InstanceStatuses : can_be_stopped(status)})

\* SupervisorExtensions::check_feature(runtime_id, FreezingServices)
check_feature(s) == s.freezing_services

\* FreezeService::validate and the feature check of the FreezeService arm.
freeze_service_validate(s, change) ==
    IF validate_status(s, change.instance_id,
                       {status \in InstanceStatuses : can_be_frozen(status)}) # "Ok"
    THEN "MalformedConfigPropose"
    ELSE IF ~check_feature(s) THEN "MalformedConfigPropose"
    ELSE "Ok"

\* ResumeService::validate
resume_service_validate(s, change) ==
    IF change.instance_id \notin DOMAIN s.service_instances THEN "MalformedConfigPropose"
    ELSE IF ~can_be_resumed(s.service_instances[change.instance_id].status)
         THEN "MalformedConfigPropose"
    ELSE IF ~s.service_instances[change.instance_id].associated
         THEN "MalformedConfigPropose"
    ELSE "Ok"

\* Dispatcher::check_unloading_artifact: the artifact is active and no service
\* is associated with it.
check_unloading_artifact(s, artifact) ==
    /\ artifact \in s.active_artifacts
    /\ \A id \in DOMAIN s.service_instances :
          ~(s.service_instances[id].associated /\ s.service_instances[id].artifact = artifact)

\* UnloadArtifact::validate
unload_artifact_validate(s, change) ==
    IF check_unloading_artifact(s, change.artifact_id) THEN "Ok"
    ELSE "MalformedConfigPropose"

\* ExecutionContext::verify_config: the service's verify_config hook.
verify_config(s, instance_id, params) ==
    IF instance_id \notin DOMAIN s.service_instances THEN "MalformedConfigPropose"
    ELSE IF params = "error" THEN "MalformedConfigPropose"
    ELSE "Ok"

\* The bookkeeping of the verifier before the first change.
NoChangesSeen ==
    [consensus_propose_added |-> FALSE,
     modified_instances |-> {},
     services_to_start |-> {},
     artifacts_for_started_services |-> {},
     unloaded_artifacts |-> {}]

\* The artifacts that the proposal both unloads and starts a service from.
start_unload_intersection_ignored(seen) == {}
start_unload_intersection(seen) ==
    seen.unloaded_artifacts \cap seen.artifacts_for_started_services

RECURSIVE verify_changes_from(_, _, _, _)
verify_changes_from(s, changes, i, seen) ==
    IF i > Len(changes)
    THEN IF start_unload_intersection(seen) # {} THEN "MalformedConfigPropose" ELSE "Ok"
    ELSE LET change == changes[i]
             registered ==
                 [seen EXCEPT !.modified_instances = @ \cup maybe_instance_id(change)]
         IN
         IF instance_modified_twice(change, seen.modified_instances)
         THEN "MalformedConfigPropose"
         ELSE IF change.tag = "Consensus"
         THEN IF seen.consensus_propose_added THEN "MalformedConfigPropose"
              ELSE IF ~consensus_validate(change.config) THEN "MalformedConfigPropose"
              ELSE verify_changes_from(s, changes, i + 1,
                       [registered EXCEPT !.consensus_propose_added = TRUE])
         ELSE IF change.tag = "Service"
         THEN IF verify_config(s, change.instance_id, change.params) # "Ok"
              THEN verify_config(s, change.instance_id, change.params)
              ELSE verify_changes_from(s, changes, i + 1, registered)
         ELSE IF change.tag = "StartService"
         THEN IF change.name \in seen.services_to_start THEN "MalformedConfigPropose"
              ELSE IF start_service_validate(s, change) # "Ok"
                   THEN start_service_validate(s, change)
              ELSE verify_changes_from(s, changes, i + 1,
                       [registered EXCEPT
                          !.services_to_start = @ \cup {change.name},
                          !.artifacts_for_started_services = @ \cup {change.artifact}])
         ELSE IF change.tag = "StopService"
         THEN IF stop_service_validate(s, change) # "Ok"
              THEN stop_service_validate(s, change)
              ELSE verify_changes_from(s, changes, i + 1, registered)
         ELSE IF change.tag = "ResumeService"
         THEN IF resume_service_validate(s, change) # "Ok"
              THEN resume_service_validate(s, change)
              ELSE verify_changes_from(s, changes, i + 1, registered)
         ELSE IF change.tag = "FreezeService"
         THEN IF freeze_service_validate(s, change) # "Ok"
              THEN freeze_service_validate(s, change)
              ELSE verify_changes_from(s, changes, i + 1, registered)
         ELSE \* UnloadArtifact
              IF change.artifact_id \in seen.unloaded_artifacts THEN "MalformedConfigPropose"
              ELSE IF unload_artifact_validate(s, change) # "Ok"
                   THEN unload_artifact_validate(s, change)
              ELSE verify_changes_from(s, changes, i + 1,
                       [registered EXCEPT !.unloaded_artifacts = @ \cup {change.artifact_id}])

verify_config_changes(s, changes) == verify_changes_from(s, changes, 1, NoChangesSeen)

----------------------------------------------------------------------------
(* propose_config_change *)

\* The proposal after the `actual_from` field is defaulted to the next height.
propose_with_actual_from_unset(s, propose) == propose
propose_with_actual_from(s, propose) ==
    IF propose.actual_from = 0
    THEN [propose EXCEPT !.actual_from = s.height + 1]
    ELSE propose

\* `current_height >= propose.actual_from` for an explicitly set `actual_from`.
actual_from_is_past_strict(s, propose) ==
    propose.actual_from # 0 /\ s.height > propose.actual_from
actual_from_is_past(s, propose) ==
    propose.actual_from # 0 /\ s.height >= propose.actual_from

\* A pending proposal exists and is still in the future.
config_propose_exists_never(s) == FALSE
config_propose_exists(s) ==
    \E entry \in s.pending_proposal : s.height < entry.config_propose.actual_from

increase_configuration_number_by_two(s) == s.configuration_number + 2
increase_configuration_number(s) == s.configuration_number + 1

\* The vote of the proposal's author, recorded with the proposal.
proposer_vote_dropped(s, propose_hash, author) == s.config_confirms
proposer_vote(s, propose_hash, author) == confirm(s.config_confirms, propose_hash, author)

\* The schema after an outdated pending proposal, if any, is cleaned.
remove_outdated_proposal(s) ==
    [s EXCEPT !.pending_proposal =
                  {e \in @ : s.height < e.config_propose.actual_from}]

\* `propose.object_hash()`, taken after `actual_from` was set.
propose_hash_as_submitted(s, propose) == object_hash(propose)
propose_hash_as_stored(s, propose) == object_hash(propose_with_actual_from(s, propose))

propose_config_change(s, author, propose) ==
    LET stored == propose_with_actual_from(s, propose)
        propose_hash == propose_hash_as_stored(s, propose)
        cleaned == remove_outdated_proposal(s)
    IN  IF ~get_validator(s, author) THEN Abort(s, "UnauthorizedCaller")
        ELSE IF actual_from_is_past(s, propose) THEN Abort(s, "ActualFromIsPast")
        ELSE IF config_propose_exists(s) THEN Abort(s, "ConfigProposeExists")
        ELSE IF verify_config_changes(cleaned, stored.changes) # "Ok"
             THEN Cancelled(s, cleaned,
                            verify_config_changes(cleaned, stored.changes), {})
        ELSE IF stored.configuration_number # cleaned.configuration_number
             THEN Cancelled(s, cleaned, "IncorrectConfigurationNumber", {})
        ELSE Done([cleaned EXCEPT
                     !.configuration_number = increase_configuration_number(s),
                     !.config_confirms = proposer_vote(s, propose_hash, author),
                     !.pending_proposal =
                         {[config_propose |-> stored, propose_hash |-> propose_hash]}],
                  {})

----------------------------------------------------------------------------
(* confirm_config_change *)

already_confirmed_never(s, entry, author) == FALSE
already_confirmed(s, entry, author) ==
    confirmed_by(s.config_confirms, entry.propose_hash, author)

\* `entry.config_propose.actual_from <= current_height`
vote_deadline_exceeded_never(s, entry) == FALSE
vote_deadline_exceeded(s, entry) == entry.config_propose.actual_from <= s.height

confirm_config_change(s, author, vote) ==
    IF ~get_validator(s, author) THEN Abort(s, "UnauthorizedCaller")
    ELSE IF s.pending_proposal = {} THEN Abort(s, "ConfigProposeNotRegistered")
    ELSE LET entry == CHOOSE e \in s.pending_proposal : TRUE IN
         IF entry.propose_hash # vote THEN Abort(s, "ConfigProposeNotRegistered")
         ELSE IF vote_deadline_exceeded(s, entry) THEN Abort(s, "DeadlineExceeded")
         ELSE IF already_confirmed(s, entry, author) THEN Abort(s, "AttemptToVoteTwice")
         ELSE Done([s EXCEPT !.config_confirms = confirm(s.config_confirms, vote, author)],
                   {})

----------------------------------------------------------------------------
(* request_artifact_deploy *)

deploy_deadline_is_reached(s, deploy) == deploy.deadline_height <= s.height
deploy_deadline_is_past(s, deploy) == deploy.deadline_height < s.height

\* `schema.pending_deployments.contains(&deploy.artifact)`
deployment_is_registered_as_requested(s, deploy) ==
    contains(s.pending_deployments, deploy.artifact)
    /\ s.pending_deployments[deploy.artifact] = deploy
deployment_is_registered(s, deploy) == contains(s.pending_deployments, deploy.artifact)

request_artifact_deploy(s, author, deploy) ==
    LET confirmed == confirm(s.deploy_requests, deploy, author) IN
    IF ~get_validator(s, author) THEN Abort(s, "UnauthorizedCaller")
    ELSE IF ~artifact_validate(deploy.artifact) THEN Abort(s, "InvalidArtifactId")
    ELSE IF deploy_deadline_is_past(s, deploy) THEN Abort(s, "ActualFromIsPast")
    ELSE IF deploy.artifact \in s.dispatcher_artifacts THEN Abort(s, "AlreadyDeployed")
    ELSE IF deployment_is_registered(s, deploy)
         THEN IF ~confirmed_by(s.deploy_requests, deploy, author)
              THEN Done([s EXCEPT !.deploy_requests = confirmed], {})
              ELSE Abort(s, "DeployRequestAlreadyRegistered")
    ELSE IF deploy_approved(s.mode, deploy, confirmed, validator_count(s))
         THEN Done([s EXCEPT
                      !.deploy_requests = confirmed,
                      !.deploy_states = put(@, deploy, Pending),
                      !.pending_deployments = put(@, deploy.artifact, deploy)],
                   {})
    ELSE Done([s EXCEPT !.deploy_requests = confirmed], {})

----------------------------------------------------------------------------
(* report_deploy_result *)

\* SupervisorExtensions::start_artifact_registration: the dispatcher takes the
\* artifact, unless it refuses.
start_artifact_registration(s, artifact, answer) ==
    IF answer = "Ok" THEN [s EXCEPT !.dispatcher_artifacts = @ \cup {artifact}] ELSE s

\* `s0` is the state the transaction started in, restored if the dispatcher
\* refuses the registration.
confirm_deploy(s0, s, deploy_request, author, answer) ==
    LET confirmed == confirm(s.deploy_confirmations, deploy_request, author)
        s1 == [s EXCEPT !.deploy_confirmations = confirmed]
        s2 == [s1 EXCEPT !.deploy_states = put(@, deploy_request, Succeed)]
        call == {<<"start_artifact_registration", deploy_request.artifact>>}
    IN  IF intersect_with_validators(s.mode, confirmed, deploy_request,
                                     validator_keys(s.consensus_config))
        THEN IF answer = "Ok"
             THEN Done(start_artifact_registration(s2, deploy_request.artifact, answer),
                       call)
             ELSE Cancelled(s0, s2, "RegistrationRefused", call)
        ELSE Done(s1, {})

\* `schema.pending_deployments.remove(&deploy_request.artifact)`
failed_deployment_kept_pending(s, deploy_request) == s.pending_deployments
failed_deployment_removed(s, deploy_request) ==
    remove(s.pending_deployments, deploy_request.artifact)

fail_deploy(s, deploy_request, error) ==
    Done([s EXCEPT
            !.deploy_states = put(@, deploy_request, Failed(s.height, error)),
            !.pending_deployments = failed_deployment_removed(s, deploy_request)],
         {})

report_deadline_exceeded(s, deploy) == deploy.deadline_height < s.height

\* `deploy_request != deploy_result.request`
mismatch_of_artifacts(deploy_request, request) == deploy_request.artifact # request.artifact
mismatch(deploy_request, request) == deploy_request # request

report_deploy_result(s, author, deploy_result, answer) ==
    LET request == deploy_result.request
        deploy_request == s.pending_deployments[request.artifact]
    IN
    IF ~get_validator(s, author) THEN Abort(s, "UnauthorizedCaller")
    ELSE IF contains(s.deploy_states, request) /\ is_failed(s.deploy_states[request])
         THEN Done(s, {})
    ELSE IF ~contains(s.pending_deployments, request.artifact)
         THEN Abort(s, "DeployRequestNotRegistered")
    ELSE IF mismatch(deploy_request, request)
         THEN Abort(s, "DeployRequestNotRegistered")
    ELSE IF report_deadline_exceeded(s, deploy_request) THEN Abort(s, "DeadlineExceeded")
    ELSE IF deploy_result.result = "Ok"
         THEN confirm_deploy(s, s, deploy_request, author, answer)
    ELSE fail_deploy(s, deploy_request, deploy_result.result)

----------------------------------------------------------------------------
(* MigrationState *)

\* MigrationState::new
migration_state_new(state, version) ==
    [phase |-> state.phase, height |-> state.height, error |-> state.error,
     version |-> version, hash |-> NoHash]

\* MigrationState::add_state_hash: a recorded hash that differs is a divergence.
state_hash_diverges(state, state_hash) == state.hash # NoHash /\ state.hash # state_hash
add_state_hash(state, state_hash) == [state EXCEPT !.hash = state_hash]

\* MigrationState::update
migration_state_update(state, new_state, version) ==
    [state EXCEPT !.phase = new_state.phase, !.height = new_state.height,
                  !.error = new_state.error, !.version = version]

\* MigrationState::fail
migration_state_fail(state, new_state) ==
    [state EXCEPT !.phase = new_state.phase, !.height = new_state.height,
                  !.error = new_state.error]

----------------------------------------------------------------------------
(* The dispatcher's side of a migration. *)

\* SupervisorExtensions::initiate_migration: the runtime's answer.
initiate_migration(s, request, answer) == answer

\* SupervisorExtensions::commit_migration returns an error.
commit_refused(answer) == answer # "Ok"

\* SupervisorExtensions::rollback_migration returns an error.
rollback_refused(answer) == answer # "Ok"

----------------------------------------------------------------------------
(* fail_migration, confirm_migration *)

failed_migration_kept_pending(s, request) == s.pending_migrations
failed_migration_removed(s, request) == s.pending_migrations \ {request}

\* `s0` is the state the transaction started in, restored if the rollback is refused.
fail_migration(s0, s, request, error, initiate_rollback, answer) ==
    LET state == migration_state_fail(s.migration_states[request], Failed(s.height, error))
        s1 == [s EXCEPT
                 !.migration_states = put(@, request, state),
                 !.pending_migrations = failed_migration_removed(s, request)]
        call == {<<"rollback_migration", request.service>>}
    IN  IF initiate_rollback
        THEN IF rollback_refused(answer)
             THEN Cancelled(s0, s1, "RollbackRefused", call)
             ELSE Done(s1, call)
        ELSE Done(s1, {})

\* The migration is scheduled for a flush: it leaves the pending migrations.
schedule_flush_keeps_pending(s, request) ==
    [s EXCEPT !.migrations_to_flush = @ \cup {request}]
schedule_flush(s, request) ==
    [s EXCEPT !.pending_migrations = @ \ {request},
              !.migrations_to_flush = @ \cup {request}]

confirm_migration(s, request, state_hash, author, answer) ==
    LET state0 == s.migration_states[request] IN
    IF state_hash_diverges(state0, state_hash)
    THEN fail_migration(s, s, request, "StateHashDivergence", TRUE, answer)
    ELSE LET state == add_state_hash(state0, state_hash)
             confirmed == confirm(s.migration_confirmations, request, author)
             s1 == [s EXCEPT
                      !.migration_states = put(@, request, state),
                      !.migration_confirmations = confirmed]
             call == {<<"commit_migration", request.service, state_hash>>}
         IN  IF intersect_with_validators(s.mode, confirmed, request,
                                          validator_keys(s.consensus_config))
             THEN LET s2 == schedule_flush(s1, request)
                  IN  IF commit_refused(answer)
                      THEN Cancelled(s, s2, "CommitRefused", call)
                      ELSE Done(s2, call)
             ELSE Done(s1, {})

----------------------------------------------------------------------------
(* request_migration *)

migration_deadline_is_past_never(s, request) == FALSE
migration_deadline_is_past(s, request) == request.deadline_height < s.height

\* instance.data_version() of the service the request is for.
data_version_of_new_artifact(s, request) == request.new_artifact.version
data_version(s, request) == s.instances[request.service]

\* A fast-forward migration is completed immediately.
complete_fast_forward_kept_pending(s, request, state) ==
    [s EXCEPT
       !.migration_states =
           put(@, request,
               migration_state_update(state, Succeed, request.new_artifact.version)),
       !.instances[request.service] = request.new_artifact.version]
complete_fast_forward(s, request, state) ==
    [s EXCEPT
       !.migration_states =
           put(@, request,
               migration_state_update(state, Succeed, request.new_artifact.version)),
       !.pending_migrations = @ \ {request},
       !.instances[request.service] = request.new_artifact.version]

\* `let initiate_rollback = false;`: a migration that failed to start is not
\* rolled back.
rollback_of_failed_start_initiated == TRUE
rollback_of_failed_start == FALSE

request_migration(s, author, request, answer) ==
    IF ~get_validator(s, author) THEN Abort(s, "UnauthorizedCaller")
    ELSE IF ~contains(s.instances, request.service) THEN Abort(s, "MalformedConfigPropose")
    ELSE IF migration_deadline_is_past(s, request) THEN Abort(s, "ActualFromIsPast")
    ELSE
    LET confirmed == confirm(s.migration_requests, request, author)
        s1 == [s EXCEPT !.migration_requests = confirmed]
    IN  IF ~migration_approved(s.mode, request, confirmed, validator_count(s))
        THEN Done(s1, {})
        ELSE
        LET state == migration_state_new(Pending, data_version(s, request))
            s2 == [s1 EXCEPT
                     !.migration_states = put(@, request, state),
                     !.pending_migrations = @ \cup {request}]
            migration_type == initiate_migration(s2, request, answer)
            call == {<<"initiate_migration", request.service>>}
        IN  IF migration_type = "InitError"
            THEN [fail_migration(s, s2, request, "InitError", rollback_of_failed_start,
                                 "Ok")
                     EXCEPT !.calls = @ \cup call]
            ELSE IF migration_type = "FastForward"
            THEN Done(complete_fast_forward(s2, request, state), call)
            ELSE Done(s2, call)

----------------------------------------------------------------------------
(* report_migration_result *)

migration_failure_overlooked(state) == FALSE
migration_already_failed(state) == is_failed(state)

report_migration_result(s, author, migration_result, answer) ==
    LET request == migration_result.request IN
    IF ~get_validator(s, author) THEN Abort(s, "UnauthorizedCaller")
    ELSE IF ~contains(s.migration_states, request)
         THEN Abort(s, "MigrationRequestNotRegistered")
    ELSE IF migration_already_failed(s.migration_states[request]) THEN Done(s, {})
    ELSE IF request.deadline_height < s.height THEN Abort(s, "DeadlineExceeded")
    ELSE IF migration_result.status \in Hashes
         THEN confirm_migration(s, request, migration_result.status, author, answer)
    ELSE fail_migration(s, s, request, "MigrationFailed", TRUE, answer)

----------------------------------------------------------------------------
(* The per-block hook, run when block H = height + 1 begins. *)

RECURSIVE apply_changes_from(_, _, _)
\* The consensus configuration after the changes from index i on are applied.
apply_changes_from(changes, i, cfg) ==
    IF i > Len(changes) THEN cfg
    ELSE apply_changes_from(changes, i + 1,
            IF changes[i].tag = "Consensus" THEN changes[i].config ELSE cfg)

\* The next free instance identifier of the dispatcher.
next_instance_id(s) ==
    IF DOMAIN s.service_instances = {} THEN MainInstance
    ELSE (CHOOSE id \in DOMAIN s.service_instances :
             \A other \in DOMAIN s.service_instances : other <= id) + 1

set_status(s, instance_id, status) ==
    IF instance_id \in DOMAIN s.service_instances
    THEN [s EXCEPT !.service_instances[instance_id].status = status]
    ELSE s

\* The dispatcher after one change is applied to it.
apply_service_change(s, change) ==
    IF change.tag = "StartService"
    THEN [s EXCEPT
            !.service_instances =
                put(@, next_instance_id(s),
                    Instance(change.name, change.artifact, "Active", TRUE)),
            !.instances = put(@, change.name, GenesisVersion)]
    ELSE IF change.tag = "StopService" THEN set_status(s, change.instance_id, "Stopped")
    ELSE IF change.tag = "FreezeService" THEN set_status(s, change.instance_id, "Frozen")
    ELSE IF change.tag = "ResumeService" THEN set_status(s, change.instance_id, "Active")
    ELSE IF change.tag = "UnloadArtifact"
    THEN [s EXCEPT !.active_artifacts = @ \ {change.artifact_id},
                   !.dispatcher_artifacts = @ \ {change.artifact_id}]
    ELSE s

RECURSIVE apply_service_changes_from(_, _, _)
apply_service_changes_from(changes, i, s) ==
    IF i > Len(changes) THEN s
    ELSE apply_service_changes_from(changes, i + 1, apply_service_change(s, changes[i]))

RECURSIVE application_outcome_from(_, _)
\* How the application of the changes from index i on ends: the first service
\* whose apply_config fails decides.
application_outcome_from(changes, i) ==
    IF i > Len(changes) THEN "Ok"
    ELSE IF changes[i].tag = "Service" /\ changes[i].params = "apply_error" THEN "Error"
    ELSE IF changes[i].tag = "Service" /\ changes[i].params = "apply_panic" THEN "Panic"
    ELSE application_outcome_from(changes, i + 1)

\* The proposal matured at height H, if any.
matured_proposal_a_block_late(s, H) ==
    {e \in s.pending_proposal : H > e.config_propose.actual_from}
matured_proposal(s, H) == {e \in s.pending_proposal : H >= e.config_propose.actual_from}

proposal_approved(s, entry) ==
    config_approved(s.mode, entry.propose_hash, s.config_confirms,
                    validator_keys(s.consensus_config))

\* The matured proposal that is applied at height H: it becomes actual at H and
\* is approved.
applied_proposal(s, H) ==
    {e \in matured_proposal(s, H) :
        e.config_propose.actual_from = H /\ proposal_approved(s, e)}

\* The state after one change is applied: the consensus configuration or the
\* dispatcher takes it.
apply_change(s, change) ==
    IF change.tag = "Consensus" THEN [s EXCEPT !.consensus_config = change.config]
    ELSE apply_service_change(s, change)

RECURSIVE update_configs_from(_, _, _)
\* The changes from index i on are applied in order, up to the first service
\* whose apply_config fails: how the application ends and the state it has
\* written by then.
update_configs_from(changes, i, s) ==
    IF i > Len(changes) THEN [outcome |-> "Ok", state |-> s]
    ELSE IF application_outcome_from(<<changes[i]>>, 1) # "Ok"
    THEN [outcome |-> application_outcome_from(<<changes[i]>>, 1), state |-> s]
    ELSE update_configs_from(changes, i + 1, apply_change(s, changes[i]))

\* Mature configs: apply the approved proposal, remove the matured one.  A
\* failed application is rolled back and changes nothing but the removal; a
\* panic rolls the removal back as well.
apply_matured_config(s, H) ==
    LET matured == matured_proposal(s, H)
        applied == applied_proposal(s, H)
        removed == [s EXCEPT !.pending_proposal = @ \ matured]
    IN  IF applied = {} THEN removed
        ELSE LET changes == (CHOOSE e \in applied : TRUE).config_propose.changes
                 update == update_configs_from(changes, 1, removed)
             IN  IF update.outcome = "Panic" THEN rolled_back(s, update.state)
                 ELSE IF update.outcome = "Error" THEN rolled_back(removed, update.state)
                 ELSE update.state

\* Flush migrations: the committed migrations are flushed and marked as succeed.
flush_completed_migrations(s) ==
    [s EXCEPT
       !.migration_states =
           [m \in DOMAIN @ |->
               IF m \in s.migrations_to_flush
               THEN migration_state_update(@[m], Succeed, m.new_artifact.version)
               ELSE @[m]],
       !.instances =
           [n \in DOMAIN @ |->
               IF \E m \in s.migrations_to_flush : m.service = n
               THEN NewVersion ELSE @[n]],
       !.migrations_to_flush = {}]

\* The deadline of a request is behind the block at height H.
deadline_exceeded_a_block_late(request, H) == request.deadline_height + 1 < H
deadline_exceeded(request, H) == request.deadline_height < H

\* Time-outs of pending deployments.
remove_outdated_deployments(s, H) ==
    LET outdated == {a \in DOMAIN s.pending_deployments :
                        deadline_exceeded(s.pending_deployments[a], H)}
        requests == {s.pending_deployments[a] : a \in outdated}
    IN  [s EXCEPT
           !.deploy_states =
               [d \in DOMAIN @ |->
                   IF d \in requests
                   THEN Failed(H, "DeadlineExceeded") ELSE @[d]],
           !.pending_deployments = [a \in DOMAIN @ \ outdated |-> @[a]]]

\* Time-outs of pending migrations.
remove_outdated_migrations(s, H) ==
    LET outdated == {m \in s.pending_migrations : deadline_exceeded(m, H)} IN
    [s EXCEPT
       !.migration_states =
           [m \in DOMAIN @ |->
               IF m \in outdated
               THEN migration_state_fail(@[m], Failed(H, "DeadlineExceeded"))
               ELSE @[m]],
       !.pending_migrations = @ \ outdated]

before_transactions(s) ==
    LET H == s.height + 1
        s1 == apply_matured_config([s EXCEPT !.height = H], H)
        s2 == flush_completed_migrations(s1)
        s3 == remove_outdated_deployments(s2, H)
    IN  remove_outdated_migrations(s3, H)

\* The hook's log line.
hook_event(s) ==
    LET matured == matured_proposal(s, s.height + 1)
        applied == applied_proposal(s, s.height + 1)
    IN  IF matured = {} THEN "Block"
        ELSE IF applied = {} THEN "ConfigDiscarded"
        ELSE LET outcome ==
                     application_outcome_from(
                         (CHOOSE e \in applied : TRUE).config_propose.changes, 1)
             IN  IF outcome = "Ok" THEN "ConfigApplied"
                 ELSE IF outcome = "Error" THEN "ConfigFailed"
                 ELSE "ConfigPanicked"

----------------------------------------------------------------------------
(* TemporaryDB: the in-memory database behind a read-write lock.           *)

\* The number of bytes of an address identifier in a stored key (8 in the
\* program: one key byte here stands for four, one identifier byte for four).
ID_SIZE == 2

\* `resolved.id`: 0 stands for None, the identifier of a system address.
has_id(resolved) == resolved.id # 0

\* ResolvedAddress::system("default"), the system address of the metadata, and
\* the addresses of two indexes of one column family, which have identifiers.
DefaultAddress == [name |-> "default", id |-> 0]
MetadataAddress == [name |-> "metadata", id |-> 0]

\* The system address of the metadata of the database, and the key of the
\* version in it.
DbMetadataAddress == [name |-> "__DB_METADATA__", id |-> 0]
VersionKey == <<3>>
IndexAddress == [name |-> "index", id |-> 1]
SiblingAddress == [name |-> "index", id |-> 2]

\* An address nothing was ever written to, with and without identifier.
FreshAddress == [name |-> "fresh", id |-> 3]
FreshSystemAddress == [name |-> "fresh", id |-> 0]

\* Keys are byte strings; <<1>> is a prefix of <<1, 0>>.
DbKeys == {<<1>>, <<1, 0>>, <<2>>}
DbValues == {"x", "y"}

\* The order of Vec<u8>, which is the order of the BTreeMap: lexicographic.
bytes_less(a, b) ==
    \E i \in 1 .. Len(b) :
        /\ \A j \in 1 .. (i - 1) : j <= Len(a) /\ a[j] = b[j]
        /\ (i > Len(a) \/ a[i] < b[i])

\* ResolvedAddress::id_to_bytes: the identifier in big-endian bytes.
id_to_bytes(resolved) == [i \in 1 .. ID_SIZE |-> IF i = ID_SIZE THEN resolved.id ELSE 0]

\* rocksdb::next_id_bytes: the bytes of the next identifier.
next_id_bytes(id_bytes) == [id_bytes EXCEPT ![ID_SIZE] = @ + 1]

\* ResolvedAddress::keyed: the key as stored, prefixed by the identifier of
\* the address if it has one.
keyed_without_id(resolved, key) == key
keyed(resolved, key) ==
    IF has_id(resolved) THEN id_to_bytes(resolved) \o key ELSE key

Put(value) == [change |-> "Put", value |-> value]
Delete == [change |-> "Delete", value |-> "none"]

\* Changes of one address in a patch.
Changes(cleared, data) == [cleared |-> cleared, data |-> data]

\* The patches that are merged: a value written to both addresses, and a
\* patch that clears the index and deletes from the metadata.
PutBoth(value) ==
    (MetadataAddress :> Changes(FALSE, [k \in DbKeys |-> Put(value)]))
    @@ (IndexAddress :> Changes(FALSE, [k \in DbKeys |-> Put(value)]))
ClearIndex ==
    (MetadataAddress :> Changes(FALSE, [k \in DbKeys |-> Delete]))
    @@ (IndexAddress :> Changes(TRUE, EmptyMap))
Patches == {PutBoth(value) : value \in DbValues} \cup {ClearIndex}

\* `changes.is_cleared()`: the keys of the address, those from its identifier
\* up to the next identifier, are dropped from its collection.
cleared_collection_whole(resolved, collection) == EmptyMap
cleared_collection(resolved, collection) ==
    IF has_id(resolved)
    THEN LET id_bytes == id_to_bytes(resolved)
             next_bytes == next_id_bytes(id_bytes)
             head == {k \in DOMAIN collection : bytes_less(k, id_bytes)}
             tail == {k \in DOMAIN collection : ~bytes_less(k, next_bytes)}
         IN  [k \in head \cup tail |-> collection[k]]
    ELSE EmptyMap

\* The collection after the data of the changes is written to it.
written_collection(resolved, collection, data) ==
    LET puts == {keyed(resolved, k) : k \in {x \in DOMAIN data : data[x].change = "Put"}}
        deletes == {keyed(resolved, k) : k \in {x \in DOMAIN data : data[x].change = "Delete"}}
        value_of(stored) ==
            data[CHOOSE k \in DOMAIN data : keyed(resolved, k) = stored].value
    IN  [stored \in (DOMAIN collection \ deletes) \cup puts |->
            IF stored \in puts THEN value_of(stored) ELSE collection[stored]]

\* One iteration of the loop of Database::merge: the changes of one address.
merge_address(inner, resolved, changes) ==
    LET present == IF contains(inner, resolved) THEN inner
                   ELSE put(inner, resolved, EmptyMap)
        collection == present[resolved]
        kept == IF changes.cleared THEN cleared_collection(resolved, collection)
                ELSE collection
    IN  put(present, resolved, written_collection(resolved, kept, changes.data))

RECURSIVE merge_addresses(_, _, _)
\* Database::merge, for the addresses of the patch still to be written.
merge_addresses(inner, patch, todo) ==
    IF todo = {} THEN inner
    ELSE LET resolved == CHOOSE x \in todo : TRUE IN
         merge_addresses(merge_address(inner, resolved, patch[resolved]), patch,
                         todo \ {resolved})

merge(inner, patch) == merge_addresses(inner, patch, DOMAIN patch)

\* TemporaryDB::clear: every table is kept, empty.
empty_tables(inner) == [resolved \in DOMAIN inner |-> EmptyMap]
clear(inner) == empty_tables(inner)

\* Snapshot::get
snapshot_get(snapshot, resolved, key) ==
    IF ~contains(snapshot, resolved) THEN "none"
    ELSE IF ~contains(snapshot[resolved], keyed(resolved, key)) THEN "none"
    ELSE snapshot[resolved][keyed(resolved, key)]

RECURSIVE ascending(_)
\* The keys of a BTreeMap range in the order of the map.
ascending(keys) ==
    IF keys = {} THEN <<>>
    ELSE LET first == CHOOSE k \in keys : \A o \in keys \ {k} : bytes_less(k, o)
         IN  <<first>> \o ascending(keys \ {first})

\* The keys after a lower bound that is left out.
range_after(collection, from) ==
    ascending({k \in DOMAIN collection : bytes_less(from, k)})

\* `collection.range(&from..)`: the lower bound is included.
range(collection, from) ==
    ascending({k \in DOMAIN collection : ~bytes_less(k, from)})

\* What an iterator yielded, and whether it panicked on a key shorter than
\* the prefix (`&key[..ID_SIZE]`).
Yielded(entries, panicked) == [entries |-> entries, panicked |-> panicked]

RECURSIVE iterator_next(_, _, _, _)
\* TemporaryDBIterator::next, called until it returns None: from the i-th key
\* of the range on.
iterator_next(collection, keys, prefix, i) ==
    IF i > Len(keys) THEN Yielded(<<>>, FALSE)
    ELSE LET key == keys[i] IN
         IF prefix # <<>> /\ Len(key) < ID_SIZE THEN Yielded(<<>>, TRUE)
         ELSE IF prefix # <<>> /\ SubSeq(key, 1, ID_SIZE) # prefix
              THEN Yielded(<<>>, FALSE)
         ELSE LET rest == iterator_next(collection, keys, prefix, i + 1)
                  stripped == IF prefix # <<>>
                              THEN SubSeq(key, ID_SIZE + 1, Len(key)) ELSE key
              IN  Yielded(<<<<stripped, collection[key]>>>> \o rest.entries,
                          rest.panicked)

\* Snapshot::iter: the collection of the address, or of "default" if the
\* address has none, from the keyed lower bound on.
iter(snapshot, name, from) ==
    LET collection == IF contains(snapshot, name) THEN snapshot[name]
                      ELSE snapshot[DefaultAddress]
        prefix == IF has_id(name) THEN id_to_bytes(name) ELSE <<>>
    IN  iterator_next(collection, range(collection, keyed(name, from)), prefix, 1)

\* RwLock::read succeeds while no writer holds the lock; RwLock::write while
\* nobody holds it.
read_lock_ignores_writer(d) == TRUE
read_lock_free(d) == d.writer.pc = "idle"
write_lock_free(d) == d.writer.pc = "idle" /\ d.reader = "idle"

IdleWriter == [pc |-> "idle", patch |-> EmptyMap, todo |-> {}, tables |-> EmptyMap]
NoSnapshot == [taken |-> FALSE]

\* The operation that holds the write lock started from `before` and leaves `after`.
NoOperation(inner) == [before |-> inner, after |-> inner]

\* db::check_database on a database without metadata: the version of the
\* database is merged into the table of the metadata of the database.
check_database(inner) ==
    merge(inner, DbMetadataAddress :> Changes(FALSE, VersionKey :> Put("version")))

\* TemporaryDB::new
NewDatabase ==
    [inner |-> check_database(DefaultAddress :> EmptyMap),
     writer |-> IdleWriter,
     operation |-> NoOperation(check_database(DefaultAddress :> EmptyMap)),
     reader |-> "idle",
     snapshot |-> NoSnapshot]

----------------------------------------------------------------------------
(* Specifications. *)

\* The dispatcher after the genesis block: service "svc" is active.
GenesisView ==
    [service_instances |->
         (MainInstance :> Instance("svc", GenesisArtifact, "Active", TRUE)),
     dispatcher_artifacts |-> {GenesisArtifact},
     active_artifacts |-> {GenesisArtifact},
     freezing_services |-> TRUE]

\* The state after the genesis block, for a genesis consensus configuration,
\* a supervisor mode and the services and artifacts of the genesis block.
GenesisState(cfg, m, view) ==
    [height |-> 0,
     consensus_config |-> cfg,
     mode |-> m,
     pending_proposal |-> {},
     configuration_number |-> 0,
     config_confirms |-> {},
     deploy_requests |-> {},
     deploy_confirmations |-> {},
     deploy_states |-> EmptyMap,
     pending_deployments |-> EmptyMap,
     dispatcher_artifacts |-> view.dispatcher_artifacts,
     active_artifacts |-> view.active_artifacts,
     service_instances |-> view.service_instances,
     freezing_services |-> view.freezing_services,
     migration_requests |-> {},
     migration_confirmations |-> {},
     migration_states |-> EmptyMap,
     pending_migrations |-> {},
     migrations_to_flush |-> {},
     instances |->
         [n \in {view.service_instances[id].name : id \in DOMAIN view.service_instances}
             |-> GenesisVersion]]

NoInput == [author |-> NoAuthor]

Genesis(cfg) ==
    /\ st \in {GenesisState(cfg, m, GenesisView) : m \in Modes}
    /\ result = "Genesis"
    /\ calls = {}
    /\ voters = {}
    /\ registrations = [a \in Artifacts |-> "never"]
    /\ input = NoInput
    /\ db = NewDatabase

\* A network of four validators, and one of two.
Init == Genesis("c0")
InitTwo == Genesis("c2")

called(registered) == IF registered = "never" THEN "once" ELSE "repeated"

\* A transaction with outcome `out` is executed.
Execute(out) ==
    /\ st' = out.state
    /\ result' = out.status
    /\ calls' = out.calls
    /\ registrations' =
          [a \in Artifacts |->
              IF <<"start_artifact_registration", a>> \in out.calls
              THEN called(registrations[a]) ELSE registrations[a]]
    /\ UNCHANGED <<input, db>>

ProposeConfigChange ==
    \E a \in Authors, p \in ConfigProposes :
        LET out == propose_config_change(st, a, p) IN
        /\ Execute(out)
        /\ voters' = IF out.status = "Ok" THEN {a} ELSE voters

ConfirmConfigChange ==
    \E a \in Authors, h \in VoteHashes(st) :
        LET out == confirm_config_change(st, a, h) IN
        /\ Execute(out)
        /\ voters' = IF out.status = "Ok" THEN voters \cup {a} ELSE voters

RequestArtifactDeploy ==
    \E a \in Authors, d \in DeployRequests :
        Execute(request_artifact_deploy(st, a, d)) /\ UNCHANGED voters

ReportDeployResult ==
    \E a \in Authors, r \in DeployResults, e \in ExtensionAnswers :
        Execute(report_deploy_result(st, a, r, e)) /\ UNCHANGED voters

RequestMigration ==
    \E a \in Authors, m \in MigrationRequests, t \in MigrationTypes :
        Execute(request_migration(st, a, m, t)) /\ UNCHANGED voters

ReportMigrationResult ==
    \E a \in Authors, r \in MigrationResults, e \in ExtensionAnswers :
        Execute(report_migration_result(st, a, r, e)) /\ UNCHANGED voters

BeforeTransactions ==
    /\ st.height < MaxHeight
    /\ st' = before_transactions(st)
    /\ result' = hook_event(st)
    /\ calls' = {}
    /\ voters' = IF before_transactions(st).pending_proposal = st.pending_proposal
                  THEN voters ELSE {}
    /\ UNCHANGED <<registrations, input, db>>

NextConfig == ProposeConfigChange \/ ConfirmConfigChange \/ BeforeTransactions
NextDeploy == RequestArtifactDeploy \/ ReportDeployResult \/ BeforeTransactions
NextMigration == RequestMigration \/ ReportMigrationResult \/ BeforeTransactions

SpecConfig == Init /\ [][NextConfig]_vars
SpecDeploy == InitTwo /\ [][NextDeploy]_vars
SpecMigration == InitTwo /\ [][NextMigration]_vars

----------------------------------------------------------------------------
(* The verifier of change lists: a proposal and the dispatcher it is       *)
(* verified against are drawn at the start; the proposal is then submitted *)
(* at any height, before and after it was applied.                         *)

\* Service "aux" is frozen and every artifact is active.
FrozenView ==
    [service_instances |->
         (MainInstance :> Instance("svc", GenesisArtifact, "Active", TRUE))
         @@ (AuxInstance :> Instance("aux", GenesisArtifact, "Frozen", TRUE)),
     dispatcher_artifacts |-> {GenesisArtifact, SpareArtifact},
     active_artifacts |-> {GenesisArtifact, SpareArtifact},
     freezing_services |-> TRUE]

\* Service "aux" is frozen with migrated data (no associated artifact) and the
\* runtime cannot freeze services.
MigratedView ==
    [FrozenView EXCEPT
       !.service_instances[AuxInstance].associated = FALSE,
       !.freezing_services = FALSE]

\* Service "aux" is stopped and the spare artifact is deployed but not active.
StoppedView ==
    [FrozenView EXCEPT
       !.service_instances[AuxInstance].status = "Stopped",
       !.active_artifacts = {GenesisArtifact}]

DispatcherViews == {FrozenView, MigratedView, StoppedView}

VerifierChanges ==
    { ConsensusChange("c1"), ConsensusChange(InvalidConsensusConfig),
      ServiceChange(MainInstance, "ok"), ServiceChange(MainInstance, "error"),
      ServiceChange(AbsentInstance, "ok"),
      StartService(SpareArtifact, "new"), StartService(GenesisArtifact, "new"),
      StartService(SpareArtifact, "svc"), StartService(SpareArtifact, InvalidName),
      StartService(UnknownArtifact, "new"),
      StopService(MainInstance), StopService(AuxInstance), StopService(AbsentInstance),
      FreezeService(MainInstance), FreezeService(AuxInstance),
      ResumeService(MainInstance), ResumeService(AuxInstance),
      UnloadArtifact(SpareArtifact), UnloadArtifact(GenesisArtifact),
      UnloadArtifact(UnknownArtifact) }

\* Lists of one and of two changes, and the list of
\* test_discard_errored_service_config_change.
VerifierChangeLists ==
    {<<c>> : c \in VerifierChanges}
    \cup {<<c, d>> : c \in VerifierChanges, d \in VerifierChanges}
    \cup {<<ServiceChange(AuxInstance, "ok"), ServiceChange(MainInstance, "error"),
            ConsensusChange("c1")>>}

VerifierInputs ==
    [author : {"v1"},
     propose : [actual_from : {0},
                configuration_number : ConfigNumbers,
                changes : VerifierChangeLists]]

InitVerifier ==
    /\ st \in {GenesisState("c2", m, view) : m \in Modes, view \in DispatcherViews}
    /\ result = "Genesis"
    /\ calls = {}
    /\ voters = {}
    /\ registrations = [a \in Artifacts |-> "never"]
    /\ input \in VerifierInputs
    /\ db = NewDatabase

\* The proposal drawn at the start is submitted.
ProposeInput ==
    LET out == propose_config_change(st, input.author, input.propose) IN
    /\ Execute(out)
    /\ voters' = IF out.status = "Ok" THEN {input.author} ELSE voters

NextVerifier == ProposeInput \/ BeforeTransactions

SpecVerifier == InitVerifier /\ [][NextVerifier]_vars

----------------------------------------------------------------------------
(* Proposals whose application fails: the service refuses the new          *)
(* parameters with an error, or panics, when the hook applies them.        *)

ServiceChangeLists ==
    { <<ServiceChange(MainInstance, "apply_panic")>>,
      <<ServiceChange(MainInstance, "apply_error")>>,
      <<ConsensusChange("c1")>>,
      <<ConsensusChange(InvalidConsensusConfig)>> }

ServiceConfigProposes ==
    [actual_from : 0 .. MaxHeight,
     configuration_number : ConfigNumbers,
     changes : ServiceChangeLists]

ProposeServiceConfig ==
    \E a \in Authors, p \in ServiceConfigProposes :
        LET out == propose_config_change(st, a, p) IN
        /\ Execute(out)
        /\ voters' = IF out.status = "Ok" THEN {a} ELSE voters

NextRecovery == ProposeServiceConfig \/ ConfirmConfigChange \/ BeforeTransactions

SpecRecovery == InitTwo /\ [][NextRecovery]_vars

----------------------------------------------------------------------------
(* Proposals of several changes whose application fails after a change     *)
(* that would have succeeded.                                              *)

FailingChangeLists ==
    { <<ConsensusChange("c1"), ServiceChange(MainInstance, "apply_error")>>,
      <<StartService(GenesisArtifact, "new"), ServiceChange(MainInstance, "apply_panic")>>,
      <<ServiceChange(MainInstance, "apply_error")>>,
      <<ServiceChange(MainInstance, "apply_panic")>>,
      <<ConsensusChange("c1"), ServiceChange(MainInstance, "ok")>> }

FailingProposes ==
    [actual_from : 0 .. MaxHeight,
     configuration_number : ConfigNumbers,
     changes : FailingChangeLists]

ProposeFailingConfig ==
    \E a \in Authors, p \in FailingProposes :
        LET out == propose_config_change(st, a, p) IN
        /\ Execute(out)
        /\ voters' = IF out.status = "Ok" THEN {a} ELSE voters

NextFailedApply == ProposeFailingConfig \/ ConfirmConfigChange \/ BeforeTransactions

SpecFailedApply == InitTwo /\ [][NextFailedApply]_vars

----------------------------------------------------------------------------
(* Failing transactions: a validator's proposals that panic when applied   *)
(* or fail verification, next to the deploy and migration transactions.    *)

PanickingProposes ==
    [actual_from : {0},
     configuration_number : ConfigNumbers,
     changes : {<<ServiceChange(MainInstance, "apply_panic")>>,
                <<ConsensusChange(InvalidConsensusConfig)>>}]

ProposePanickingConfig ==
    \E p \in PanickingProposes :
        LET out == propose_config_change(st, "v1", p) IN
        /\ Execute(out)
        /\ voters' = IF out.status = "Ok" THEN {"v1"} ELSE voters

\* The deployment that validator v1 requests and reports on.
RequestedDeploy == [artifact |-> "a1", spec |-> "spec", deadline_height |-> 1]

RequestDeployByOne ==
    Execute(request_artifact_deploy(st, "v1", RequestedDeploy)) /\ UNCHANGED voters

ReportDeployByOne ==
    \E o \in DeployOutcomes, e \in ExtensionAnswers :
        Execute(report_deploy_result(st, "v1", [request |-> RequestedDeploy, result |-> o], e))
        /\ UNCHANGED voters

\* The migration that validator v1 requests and reports on.
RequestedMigration ==
    [new_artifact |-> [name |-> "a1", version |-> NewVersion], service |-> "svc",
     deadline_height |-> 1, seed |-> 0]

RequestMigrationByOne ==
    \E t \in MigrationTypes :
        Execute(request_migration(st, "v1", RequestedMigration, t)) /\ UNCHANGED voters

ReportMigrationByOne ==
    \E o \in MigrationOutcomes, e \in ExtensionAnswers :
        Execute(report_migration_result(st, "v1",
                    [request |-> RequestedMigration, status |-> o], e))
        /\ UNCHANGED voters

\* Two validators, the supervisor in Simple mode.
InitAtomicity ==
    /\ st = GenesisState("c2", "Simple", GenesisView)
    /\ result = "Genesis"
    /\ calls = {}
    /\ voters = {}
    /\ registrations = [a \in Artifacts |-> "never"]
    /\ input = NoInput
    /\ db = NewDatabase

NextAtomicity ==
    \/ ProposePanickingConfig
    \/ RequestDeployByOne \/ ReportDeployByOne
    \/ RequestMigrationByOne \/ ReportMigrationByOne
    \/ BeforeTransactions

SpecAtomicity == InitAtomicity /\ [][NextAtomicity]_vars

----------------------------------------------------------------------------
(* A network of four validators whose supervisor is in Simple mode:        *)
(* proposals and requests, no confirmation and no report.                  *)

InitSimple ==
    /\ st = GenesisState("c0", "Simple", GenesisView)
    /\ result = "Genesis"
    /\ calls = {}
    /\ voters = {}
    /\ registrations = [a \in Artifacts |-> "never"]
    /\ input = NoInput
    /\ db = NewDatabase

\* The validators that act; the others never send a transaction.
ActingValidators == {"v1"}

ProposeAlone ==
    \E a \in ActingValidators, p \in ConfigProposes :
        LET out == propose_config_change(st, a, p) IN
        /\ Execute(out)
        /\ voters' = IF out.status = "Ok" THEN {a} ELSE voters

RequestDeployAlone ==
    \E a \in ActingValidators, d \in DeployRequests :
        Execute(request_artifact_deploy(st, a, d)) /\ UNCHANGED voters

RequestMigrationAlone ==
    \E a \in ActingValidators, m \in MigrationRequests, t \in MigrationTypes :
        Execute(request_migration(st, a, m, t)) /\ UNCHANGED voters

NextSimple ==
    ProposeAlone \/ RequestDeployAlone \/ RequestMigrationAlone \/ BeforeTransactions

SpecSimple == InitSimple /\ [][NextSimple]_vars

----------------------------------------------------------------------------
(* Requests and reports of one validator out of four in Simple mode:       *)
(* requests fail by a reported error, at initiation or at their deadline.  *)

ReportDeployAlone ==
    \E a \in ActingValidators, r \in DeployResults, e \in ExtensionAnswers :
        Execute(report_deploy_result(st, a, r, e)) /\ UNCHANGED voters

ReportMigrationAlone ==
    \E a \in ActingValidators, r \in MigrationResults, e \in ExtensionAnswers :
        Execute(report_migration_result(st, a, r, e)) /\ UNCHANGED voters

NextFailedReports ==
    \/ RequestDeployAlone \/ ReportDeployAlone
    \/ RequestMigrationAlone \/ ReportMigrationAlone
    \/ BeforeTransactions

SpecFailedReports == InitSimple /\ [][NextFailedReports]_vars

----------------------------------------------------------------------------
(* The TemporaryDB shared by a thread that merges patches or clears the    *)
(* database and a thread that takes snapshots.                             *)

InitDatabase ==
    /\ st = GenesisState("c2", "Simple", GenesisView)
    /\ result = "Genesis"
    /\ calls = {}
    /\ voters = {}
    /\ registrations = [a \in Artifacts |-> "never"]
    /\ input = NoInput
    /\ db = NewDatabase

\* A step of the database leaves the supervisor alone.
DatabaseStep(next) ==
    /\ db' = next
    /\ UNCHANGED <<st, result, calls, history_vars, input>>

\* Database::merge takes the write lock.
MergeBegin ==
    \E patch \in Patches :
        /\ write_lock_free(db)
        /\ DatabaseStep([db EXCEPT
              !.writer = [pc |-> "merge", patch |-> patch, todo |-> DOMAIN patch,
                          tables |-> EmptyMap],
              !.operation = [before |-> db.inner, after |-> merge(db.inner, patch)]])

\* Database::merge writes the changes of the next address of the patch.
MergeAddress ==
    /\ db.writer.pc = "merge"
    /\ \E resolved \in db.writer.todo :
          DatabaseStep([db EXCEPT
              !.inner = merge_address(@, resolved, db.writer.patch[resolved]),
              !.writer.todo = @ \ {resolved}])

\* Database::merge returns and drops the write lock.
MergeEnd ==
    /\ db.writer.pc = "merge"
    /\ db.writer.todo = {}
    /\ DatabaseStep([db EXCEPT !.writer = IdleWriter, !.operation = NoOperation(db.inner)])

\* TemporaryDB::clear takes the write lock and collects the empty tables.
ClearBegin ==
    /\ write_lock_free(db)
    /\ DatabaseStep([db EXCEPT
          !.writer = [pc |-> "clear", patch |-> EmptyMap, todo |-> {},
                      tables |-> empty_tables(db.inner)],
          !.operation = [before |-> db.inner, after |-> clear(db.inner)]])

\* `rw_lock.clear()`
ClearTables ==
    /\ db.writer.pc = "clear"
    /\ DatabaseStep([db EXCEPT !.inner = EmptyMap, !.writer.pc = "extend"])

\* `rw_lock.extend(empty_tables)`; the write lock is dropped.
ClearExtend ==
    /\ db.writer.pc = "extend"
    /\ DatabaseStep([db EXCEPT
          !.inner = db.writer.tables @@ db.inner,
          !.writer = IdleWriter,
          !.operation = NoOperation(db.writer.tables @@ db.inner)])

\* TemporaryDB::temporary_snapshot takes the read lock.
SnapshotBegin ==
    /\ db.reader = "idle"
    /\ read_lock_free(db)
    /\ DatabaseStep([db EXCEPT !.reader = "locked"])

\* TemporaryDB::temporary_snapshot clones the tables and drops the read lock.
SnapshotClone ==
    /\ db.reader = "locked"
    /\ DatabaseStep([db EXCEPT
          !.reader = "idle",
          !.snapshot = [taken |-> TRUE, snapshot |-> db.inner,
                        before |-> db.operation.before,
                        after |-> db.operation.after]])

NextDatabase ==
    \/ MergeBegin \/ MergeAddress \/ MergeEnd
    \/ ClearBegin \/ ClearTables \/ ClearExtend
    \/ SnapshotBegin \/ SnapshotClone

SpecDatabase == InitDatabase /\ [][NextDatabase]_vars

----------------------------------------------------------------------------
(* The contents of the database: whole calls of merge, clear and snapshot,  *)
(* one after the other, with patches over two indexes of one column family. *)

ChangeKinds == {Put(value) : value \in DbValues} \cup {Delete}
PutOrDelete == {Put("x"), Delete}

\* A patch with the changes of one address.
PatchOf(resolved, cleared, data) == resolved :> Changes(cleared, data)

\* Any changes of the index; for its sibling and for the metadata a clearing
\* or a change of one key; and patches over both indexes.
IndexPatches ==
    {PatchOf(IndexAddress, cleared, data) :
        cleared \in BOOLEAN,
        data \in UNION {[keys -> ChangeKinds] : keys \in SUBSET DbKeys}}
OneKeyPatches(resolved) ==
    {PatchOf(resolved, cleared, k :> change) :
        cleared \in BOOLEAN, k \in DbKeys, change \in PutOrDelete}
    \cup {PatchOf(resolved, TRUE, EmptyMap)}
FamilyPatches ==
    {PatchOf(IndexAddress, TRUE, k :> Put("y")) @@ PatchOf(SiblingAddress, FALSE, k :> Put("x")) :
        k \in DbKeys}
StoragePatches ==
    IndexPatches \cup OneKeyPatches(SiblingAddress)
    \cup OneKeyPatches(MetadataAddress) \cup FamilyPatches

\* The patches that are merged one after the other: at the index "x" is put
\* at any keys and "y" at one, keys are deleted and the index is cleared; at
\* its sibling one key is put or deleted; one patch names both indexes.
MergedPatches ==
    {PatchOf(IndexAddress, cleared, data) :
        cleared \in BOOLEAN,
        data \in UNION {[keys -> PutOrDelete] : keys \in SUBSET DbKeys}}
    \cup {PatchOf(IndexAddress, cleared, <<1>> :> Put("y")) : cleared \in BOOLEAN}
    \cup {PatchOf(SiblingAddress, cleared, <<1>> :> change) :
            cleared \in BOOLEAN, change \in PutOrDelete}
    \cup {PatchOf(IndexAddress, TRUE, <<1>> :> Put("y"))
            @@ PatchOf(SiblingAddress, FALSE, <<1>> :> Put("x"))}

\* The addresses that are read, the keys that are read at them, and the lower
\* bounds of the iterations: the keys, the empty key and a key between two
\* keys.
StorageAddresses ==
    {DbMetadataAddress, MetadataAddress, IndexAddress, SiblingAddress,
     FreshAddress, FreshSystemAddress}
StoredKeys == DbKeys \cup {VersionKey}
DbFroms == StoredKeys \cup {<<>>, <<1, 1>>}

\* Database::merge
MergePatch ==
    \E patch \in MergedPatches :
        /\ write_lock_free(db)
        /\ DatabaseStep([db EXCEPT
              !.inner = merge(@, patch),
              !.operation = NoOperation(merge(db.inner, patch))])

\* TemporaryDB::clear
ClearDatabase ==
    /\ write_lock_free(db)
    /\ DatabaseStep([db EXCEPT
          !.inner = clear(@),
          !.operation = NoOperation(clear(db.inner))])

\* Database::snapshot: the snapshot the reader reads from now on; merges and
\* clears go on while it is held.
TakeSnapshot ==
    /\ read_lock_free(db)
    /\ DatabaseStep([db EXCEPT
          !.snapshot = [taken |-> TRUE, snapshot |-> db.inner,
                        before |-> db.inner, after |-> db.inner]])

NextStorage == MergePatch \/ ClearDatabase \/ TakeSnapshot

SpecStorage == InitDatabase /\ [][NextStorage]_vars

----------------------------------------------------------------------------
(* Deployments and migrations side by side, with blocks that keep coming:   *)
(* the node commits a next block as long as the chain is below MaxHeight.   *)

InitTimeouts ==
    /\ st = GenesisState("c2", "Simple", GenesisView)
    /\ result = "Genesis"
    /\ calls = {}
    /\ voters = {}
    /\ registrations = [a \in Artifacts |-> "never"]
    /\ input = NoInput
    /\ db = NewDatabase

\* The requests that can be approved: a valid artifact, a known service; the
\* deployments have the deadline of the migrations.
ValidDeployRequests ==
    {d \in DeployRequests :
        artifact_validate(d.artifact) /\ d.deadline_height \in MigrationDeadlines}
ValidMigrationRequests == {m \in MigrationRequests : m.service \in Services}

\* One validator requests, and both report on the approved requests.
RequestDeployByValidator ==
    \E d \in ValidDeployRequests :
        Execute(request_artifact_deploy(st, "v1", d)) /\ UNCHANGED voters

ReportDeployByValidator ==
    \E a \in validator_keys("c2"), d \in ValidDeployRequests, o \in DeployOutcomes,
       e \in ExtensionAnswers :
        Execute(report_deploy_result(st, a, [request |-> d, result |-> o], e))
        /\ UNCHANGED voters

RequestMigrationByValidator ==
    \E m \in ValidMigrationRequests, t \in MigrationTypes :
        Execute(request_migration(st, "v1", m, t)) /\ UNCHANGED voters

ReportMigrationByValidator ==
    \E a \in validator_keys("c2"), m \in ValidMigrationRequests,
       o \in MigrationOutcomes, e \in ExtensionAnswers :
        Execute(report_migration_result(st, a, [request |-> m, status |-> o], e))
        /\ UNCHANGED voters

NextTimeouts ==
    \/ RequestDeployByValidator \/ ReportDeployByValidator
    \/ RequestMigrationByValidator \/ ReportMigrationByValidator
    \/ BeforeTransactions

SpecTimeouts == InitTimeouts /\ [][NextTimeouts]_vars /\ WF_vars(BeforeTransactions)

----------------------------------------------------------------------------
(* Properties. *)

\* The author is a validator of the current consensus configuration.
is_current_validator(a) == a # NoAuthor /\ a \in validator_keys(st.consensus_config)

\* C1: for every deploy request, start_artifact_registration of its artifact is
\* invoked at most once over any sequence of request and report transactions.
C1_registration_at_most_once ==
    \A a \in Artifacts : registrations[a] # "repeated"

\* The report of hash `h` by `a` for the pending migration M diverges from the recorded hash.
C2_diverging_report(a, M, h) ==
    /\ is_current_validator(a)
    /\ M \in st.pending_migrations
    /\ st.migration_states[M].hash # NoHash
    /\ st.migration_states[M].hash # h

\* C2: when a validator reports Ok(h) for a pending migration M for which a different
\* hash is recorded, the report calls rollback_migration(M.service) once and
\* leaves M Failed with StateHashDivergence and out of pending_migrations; no
\* later report for M calls anything or changes the state. (If the runtime
\* answers the rollback with an error, the report is cancelled as a whole.)
C2_hash_divergence ==
    \A a \in Authors, M \in DOMAIN st.migration_states, h \in Hashes :
        C2_diverging_report(a, M, h) =>
            LET out == report_migration_result(st, a, [request |-> M, status |-> h], "Ok")
                after == out.state.migration_states[M]
            IN  /\ out.status = "Ok"
                /\ after.phase = "Failed" /\ after.error = "StateHashDivergence"
                /\ after.height = st.height
                /\ M \notin out.state.pending_migrations
                /\ out.calls = {<<"rollback_migration", M.service>>}
                /\ \A b \in Authors, r \in MigrationOutcomes, e \in ExtensionAnswers :
                      report_migration_result(out.state, b, [request |-> M, status |-> r], e)
                          = (IF is_current_validator(b)
                             THEN Done(out.state, {})
                             ELSE Abort(out.state, "UnauthorizedCaller"))
                /\ LET refused ==
                          report_migration_result(st, a, [request |-> M, status |-> h],
                                                  "Refused")
                   IN  /\ refused.status = "RollbackRefused"
                       /\ refused.state = st
                       /\ refused.calls = out.calls

\* C2 (witness): a report has just failed a migration for diverging hashes and rolled it back.
C2_witness ==
    /\ result = "Ok"
    /\ \E M \in DOMAIN st.migration_states :
          /\ st.migration_states[M].phase = "Failed"
          /\ st.migration_states[M].error = "StateHashDivergence"
          /\ M \notin st.pending_migrations
          /\ calls = {<<"rollback_migration", M.service>>}

\* The step makes the entry of `r` in the map `field` of the schema Succeed.
becomes_succeed(before, after, r) ==
    /\ r \in DOMAIN after
    /\ after[r].phase = "Succeed"
    /\ ~(r \in DOMAIN before /\ before[r].phase = "Succeed")

\* C3 (as stated): every transition of a deploy or migration state to Succeed
\* happens at a height H <= deadline_height of the request.
C3_succeed_within_deadline ==
    [][ /\ \A D \in DOMAIN st'.deploy_states :
              becomes_succeed(st.deploy_states, st'.deploy_states, D)
                  => st'.height <= D.deadline_height
        /\ \A M \in DOMAIN st'.migration_states :
              becomes_succeed(st.migration_states, st'.migration_states, M)
                  => st'.height <= M.deadline_height ]_vars

\* C3 (amended): a transaction makes a deploy or migration state Succeed only at a
\* height H <= deadline_height; the hook makes the state of a committed data
\* migration Succeed in the block after the report that completed the
\* confirmations, hence at H <= deadline_height + 1.
C3_succeed_within_deadline_or_next_block ==
    [][ /\ \A D \in DOMAIN st'.deploy_states :
              becomes_succeed(st.deploy_states, st'.deploy_states, D)
                  => st'.height = st.height /\ st.height <= D.deadline_height
        /\ \A M \in DOMAIN st'.migration_states :
              becomes_succeed(st.migration_states, st'.migration_states, M)
                  => IF st'.height = st.height
                     THEN st.height <= M.deadline_height
                     ELSE /\ M \in st.migrations_to_flush
                          /\ st'.height <= M.deadline_height + 1 ]_vars

\* C3 (witness): the hook has flushed a committed data migration in the block after
\* its deadline, and a report had made a deployment Succeed and registered its
\* artifact before the deadline of the request.
C3_witness ==
    /\ result = "Block"
    /\ \E M \in DOMAIN st.migration_states :
          /\ st.migration_states[M].phase = "Succeed"
          /\ st.migration_states[M].hash # NoHash
          /\ st.height = M.deadline_height + 1
          /\ st.instances[M.service] = M.new_artifact.version
    /\ \E D \in DOMAIN st.deploy_states :
          /\ st.height = D.deadline_height + 1
          /\ D.artifact \in st.dispatcher_artifacts
          /\ registrations[D.artifact] = "once"

\* C4: in Decentralized mode with N current validators the hook of block
\* H = actual_from applies the pending proposal iff at least floor(2N/3)+1 current
\* validators voted for it (the proposer included), which is the number of current
\* validators recorded in config_confirms for its hash; otherwise the consensus
\* configuration is unchanged.
C4_decentralized_majority ==
    [][ (st.mode = "Decentralized" /\ st'.height = st.height + 1) =>
          \A e \in st.pending_proposal :
              e.config_propose.actual_from <= st'.height =>
                  LET keys == validator_keys(st.consensus_config)
                      N == Cardinality(keys)
                      votes == Cardinality(voters \cap keys)
                      new == apply_changes_from(e.config_propose.changes, 1,
                                                st.consensus_config)
                  IN  /\ e.config_propose.actual_from = st'.height
                      /\ votes = Cardinality(
                            confirmations(st.config_confirms, e.propose_hash) \cap keys)
                      /\ st'.pending_proposal = {}
                      /\ IF votes >= (2 * N) \div 3 + 1
                         THEN result' = "ConfigApplied" /\ st'.consensus_config = new
                         ELSE /\ result' = "ConfigDiscarded"
                              /\ st'.consensus_config = st.consensus_config ]_vars

\* C4 (witness): four validators, the proposer and two confirmations: the new
\* consensus configuration is applied.
C4_witness ==
    /\ st.mode = "Decentralized"
    /\ result = "ConfigApplied"
    /\ st.consensus_config = "c1"
    /\ \E x \in st.config_confirms :
          Cardinality(confirmations(st.config_confirms, x[1])) = 3

\* C5 as stated: after every block at height H no pending proposal has
\* actual_from <= H.
C5_no_matured_pending_proposal ==
    \A e \in st.pending_proposal : e.config_propose.actual_from > st.height

\* C5 (amended): at height H a pending proposal has actual_from > H, unless it
\* was approved, became actual at H and its application panicked: then it is
\* still pending during block H (and no older proposal ever is).
C5_matured_proposal_removed_unless_panicked ==
    \A e \in st.pending_proposal :
        e.config_propose.actual_from <= st.height
        => /\ e.config_propose.actual_from = st.height
           /\ proposal_approved(st, e)
           /\ application_outcome_from(e.config_propose.changes, 1) = "Panic"

\* C5 (witness): the application of an approved proposal has just panicked and
\* the proposal is still pending at its actual_from.
C5_witness ==
    /\ result = "ConfigPanicked"
    /\ \E e \in st.pending_proposal : e.config_propose.actual_from = st.height

\* C6: a proposal sent by a validator while a pending proposal with
\* actual_from > H exists fails with ConfigProposeExists and changes nothing.
C6_one_active_proposal ==
    \A a \in Authors, p \in ConfigProposes :
        ( /\ is_current_validator(a)
          /\ ~(p.actual_from # 0 /\ p.actual_from <= st.height)
          /\ \E e \in st.pending_proposal : e.config_propose.actual_from > st.height )
        => propose_config_change(st, a, p) = Abort(st, "ConfigProposeExists")

\* C6 (witness): a second proposal was refused and the first one is still pending.
C6_witness ==
    result = "ConfigProposeExists" /\ st.pending_proposal # {}

\* The proposal passes every check that precedes the check of its number.
C7_passes_earlier_checks(a, p) ==
    /\ is_current_validator(a)
    /\ ~(p.actual_from # 0 /\ p.actual_from <= st.height)
    /\ st.pending_proposal = {}
    /\ verify_config_changes(st, p.changes) = "Ok"

\* C7: configuration_number grows by exactly 1 on each accepted proposal, which
\* carries the stored number (any other number is IncorrectConfigurationNumber),
\* and is left alone by rejected proposals, by the five other transactions and by
\* the hook.
C7_configuration_number ==
    LET n == st.configuration_number IN
    /\ \A a \in Authors, p \in ConfigProposes :
          LET out == propose_config_change(st, a, p) IN
          /\ out.status = "Ok" =>
                p.configuration_number = n /\ out.state.configuration_number = n + 1
          /\ out.status # "Ok" => out.state.configuration_number = n
          /\ C7_passes_earlier_checks(a, p) =>
                out.status = (IF p.configuration_number = n
                              THEN "Ok" ELSE "IncorrectConfigurationNumber")
    /\ \A a \in Authors :
          /\ \A h \in VoteHashes(st) :
                confirm_config_change(st, a, h).state.configuration_number = n
          /\ \A d \in DeployRequests :
                request_artifact_deploy(st, a, d).state.configuration_number = n
          /\ \A r \in DeployResults, e \in ExtensionAnswers :
                report_deploy_result(st, a, r, e).state.configuration_number = n
          /\ \A m \in MigrationRequests, t \in MigrationTypes :
                request_migration(st, a, m, t).state.configuration_number = n
          /\ \A r \in MigrationResults, e \in ExtensionAnswers :
                report_migration_result(st, a, r, e).state.configuration_number = n
    /\ before_transactions(st).configuration_number = n

\* C7 (witness): two proposals were accepted in turn and a third one carried a stale
\* number; the last accepted proposal is still pending.
C7_witness ==
    /\ st.configuration_number = 2
    /\ result = "IncorrectConfigurationNumber"

\* C8: a validator who already voted for the pending proposal (the proposer
\* included) and confirms it again gets AttemptToVoteTwice, and nothing changes.
C8_attempt_to_vote_twice ==
    \A a \in voters, e \in st.pending_proposal :
        (is_current_validator(a) /\ e.config_propose.actual_from > st.height)
        => confirm_config_change(st, a, e.propose_hash) = Abort(st, "AttemptToVoteTwice")

\* C8 (witness): a vote was replayed and the confirmations are those of the voters.
C8_witness ==
    /\ result = "AttemptToVoteTwice"
    /\ \E e \in st.pending_proposal :
          confirmations(st.config_confirms, e.propose_hash) = voters

\* C9: each of the six transactions, sent without an author or by an author who is
\* not a current validator, fails with UnauthorizedCaller whatever its payload and
\* changes nothing.
C9_unauthorized_caller ==
    \A a \in Authors :
        ~is_current_validator(a) =>
            LET refused == Abort(st, "UnauthorizedCaller") IN
            /\ \A p \in ConfigProposes : propose_config_change(st, a, p) = refused
            /\ \A h \in VoteHashes(st) : confirm_config_change(st, a, h) = refused
            /\ \A d \in DeployRequests : request_artifact_deploy(st, a, d) = refused
            /\ \A r \in DeployResults, e \in ExtensionAnswers : report_deploy_result(st, a, r, e) = refused
            /\ \A m \in MigrationRequests, t \in MigrationTypes :
                  request_migration(st, a, m, t) = refused
            /\ \A r \in MigrationResults, e \in ExtensionAnswers : report_migration_result(st, a, r, e) = refused

\* C9 (witness): a transaction of v4, dropped from the validator set by an applied
\* proposal, was refused.
C9_witness ==
    /\ result = "UnauthorizedCaller"
    /\ st.consensus_config = "c1"
    /\ calls = {}

\* C10: a propose_config_change or confirm_config_change signed by a key that is
\* not in the current validator set is rejected with UnknownAuthor.
C10_unknown_author ==
    \A a \in Authors :
        (a # NoAuthor /\ a \notin validator_keys(st.consensus_config)) =>
            /\ \A p \in ConfigProposes :
                  propose_config_change(st, a, p).status = "UnknownAuthor"
            /\ \A h \in VoteHashes(st) :
                  confirm_config_change(st, a, h).status = "UnknownAuthor"

----------------------------------------------------------------------------
(* Properties of the verifier of change lists (SpecVerifier). *)

\* The submitted proposal passes the checks that precede verification.
reaches_verification(a, p) ==
    /\ is_current_validator(a)
    /\ ~(p.actual_from # 0 /\ st.height >= p.actual_from)
    /\ \A e \in st.pending_proposal : st.height >= e.config_propose.actual_from

\* The rule a single StartService breaks against the dispatcher, if any.
start_service_violation(c) ==
    IF c.name \notin ValidNames THEN "InvalidInstanceName"
    ELSE IF c.artifact \notin st.active_artifacts THEN "UnknownArtifact"
    ELSE IF \E id \in DOMAIN st.service_instances : st.service_instances[id].name = c.name
         THEN "InstanceExists"
    ELSE "none"

\* The change, taken alone, violates a verification rule.
violates_rule(c) ==
    LET present == c.instance_id \in DOMAIN st.service_instances
        service == st.service_instances[c.instance_id]
    IN  \/ c.tag = "Consensus" /\ c.config \notin ConsensusConfigs
        \/ c.tag = "Service" /\ (~present \/ c.params = "error")
        \/ c.tag = "StartService" /\ start_service_violation(c) # "none"
        \/ c.tag = "StopService" /\ (~present \/ service.status # "Active")
        \/ c.tag = "FreezeService"
              /\ (~present \/ service.status # "Active" \/ ~st.freezing_services)
        \/ c.tag = "ResumeService"
              /\ (~present \/ service.status # "Frozen" \/ ~service.associated)
        \/ c.tag = "UnloadArtifact"
              /\ \/ c.artifact_id \notin st.active_artifacts
                 \/ \E id \in DOMAIN st.service_instances :
                        /\ st.service_instances[id].associated
                        /\ st.service_instances[id].artifact = c.artifact_id

InstanceChanges == {"StopService", "FreezeService", "ResumeService", "Service"}

\* Two changes of one list break a uniqueness rule.
breaks_uniqueness(c, d) ==
    \/ c.tag = "Consensus" /\ d.tag = "Consensus"
    \/ c.tag \in InstanceChanges /\ d.tag \in InstanceChanges
          /\ c.instance_id = d.instance_id
    \/ c.tag = "StartService" /\ d.tag = "StartService" /\ c.name = d.name
    \/ c.tag = "UnloadArtifact" /\ d.tag = "UnloadArtifact"
          /\ c.artifact_id = d.artifact_id

\* One change starts a service from the artifact the other unloads.
starts_from_unloaded(c, d) ==
    \/ c.tag = "StartService" /\ d.tag = "UnloadArtifact" /\ c.artifact = d.artifact_id
    \/ d.tag = "StartService" /\ c.tag = "UnloadArtifact" /\ d.artifact = c.artifact_id

\* The list violates a verification rule.
fails_verification(changes) ==
    \/ \E i \in 1 .. Len(changes) : violates_rule(changes[i])
    \/ \E i, j \in 1 .. Len(changes) :
          i < j /\ (breaks_uniqueness(changes[i], changes[j])
                    \/ starts_from_unloaded(changes[i], changes[j]))

StartServiceErrors == {"InvalidInstanceName", "UnknownArtifact", "InstanceExists"}

\* C11 as stated: a proposal whose change list violates any verification rule
\* fails with MalformedConfigPropose, and no proposal is pending, no vote is
\* recorded and the configuration number is unchanged afterwards.
C11_malformed_config_propose ==
    LET out == propose_config_change(st, input.author, input.propose) IN
    (reaches_verification(input.author, input.propose)
        /\ fails_verification(input.propose.changes))
    => /\ out.status = "MalformedConfigPropose"
       /\ out.state = st
       /\ out.state.pending_proposal = {}

\* C11 (amended): a proposal whose change list violates any verification rule
\* fails as a whole and changes nothing: no proposal is pending, no vote is
\* recorded and the configuration number is unchanged.  The error is
\* MalformedConfigPropose, unless a StartService of the list is itself invalid:
\* then it may be that change's InvalidInstanceName, UnknownArtifact or
\* InstanceExists.
C11_verification_all_or_nothing ==
    LET changes == input.propose.changes
        out == propose_config_change(st, input.author, input.propose)
        invalid_starts ==
            {i \in 1 .. Len(changes) :
                changes[i].tag = "StartService" /\ violates_rule(changes[i])}
    IN
    (reaches_verification(input.author, input.propose) /\ fails_verification(changes))
    => /\ out.status \in {"MalformedConfigPropose"} \cup StartServiceErrors
       /\ invalid_starts = {} => out.status = "MalformedConfigPropose"
       /\ out.status \in StartServiceErrors
             => \E i \in invalid_starts : out.status = start_service_violation(changes[i])
       /\ out.state = st
       /\ out.state.pending_proposal = {}
       /\ out.state.config_confirms = st.config_confirms
       /\ out.state.configuration_number = st.configuration_number

\* A list of a valid change followed by an invalid one was rejected as
\* malformed and nothing was stored.
C11_witness ==
    /\ result = "MalformedConfigPropose"
    /\ Len(input.propose.changes) = 2
    /\ ~violates_rule(input.propose.changes[1])
    /\ violates_rule(input.propose.changes[2])
    /\ st.pending_proposal = {}
    /\ st.config_confirms = {}
    /\ st.configuration_number = 0

\* The list both starts a service from an artifact and unloads that artifact.
start_conflicts_with_unload(changes) ==
    \E i, j \in 1 .. Len(changes) : i # j /\ starts_from_unloaded(changes[i], changes[j])

\* C12 as stated: a proposal that both starts a service from artifact A and
\* unloads A, in either order, is rejected with MalformedConfigPropose and
\* changes no state.
C12_start_conflicts_with_unload_is_malformed ==
    LET changes == input.propose.changes
        out == propose_config_change(st, input.author, input.propose)
    IN
    (reaches_verification(input.author, input.propose)
        /\ start_conflicts_with_unload(changes))
    => /\ out.status = "MalformedConfigPropose"
       /\ out.state = st

\* C12 (amended): a proposal that both starts a service from artifact A and
\* unloads A, in either order, is rejected and changes no state.  The error is
\* MalformedConfigPropose whenever every StartService of the list is valid by
\* itself, in particular when each change is valid against the dispatcher; if
\* a StartService of the list is itself invalid, the error may be that
\* change's own InvalidInstanceName, UnknownArtifact or InstanceExists, which
\* the verifier returns before it compares the started and unloaded artifacts.
C12_start_conflicts_with_unload ==
    LET changes == input.propose.changes
        out == propose_config_change(st, input.author, input.propose)
        invalid_starts ==
            {i \in 1 .. Len(changes) :
                changes[i].tag = "StartService" /\ violates_rule(changes[i])}
    IN
    (reaches_verification(input.author, input.propose)
        /\ start_conflicts_with_unload(changes))
    => /\ out.status \in {"MalformedConfigPropose"} \cup StartServiceErrors
       /\ out.state = st
       /\ invalid_starts = {} => out.status = "MalformedConfigPropose"
       /\ out.status \in StartServiceErrors
             => \E i \in invalid_starts : out.status = start_service_violation(changes[i])

\* The unload of an artifact followed by the start of a service from it, each
\* valid against the dispatcher, was rejected as malformed.
C12_witness ==
    /\ result = "MalformedConfigPropose"
    /\ Len(input.propose.changes) = 2
    /\ input.propose.changes[1].tag = "UnloadArtifact"
    /\ input.propose.changes[2].tag = "StartService"
    /\ input.propose.changes[2].artifact = input.propose.changes[1].artifact_id
    /\ ~violates_rule(input.propose.changes[1])
    /\ ~violates_rule(input.propose.changes[2])
    /\ st.pending_proposal = {}
    /\ st.configuration_number = 0

\* The list breaks one of the uniqueness rules.
breaks_uniqueness_rule(changes) ==
    \E i, j \in 1 .. Len(changes) : i < j /\ breaks_uniqueness(changes[i], changes[j])

\* C13: a change list with two Consensus changes, two changes among
\* StopService / FreezeService / ResumeService / Service for one instance_id,
\* two StartService of one name or two UnloadArtifact of one artifact is never
\* accepted by verify_config_changes, whatever the dispatcher state is, and the
\* proposal that carries it is rejected without any change of state.
C13_uniqueness_rules ==
    LET changes == input.propose.changes
        out == propose_config_change(st, input.author, input.propose)
    IN
    breaks_uniqueness_rule(changes)
    => /\ verify_config_changes(st, changes) # "Ok"
       /\ \A view \in DispatcherViews :
             verify_config_changes(GenesisState("c2", st.mode, view), changes) # "Ok"
       /\ out.status # "Ok"
       /\ out.state = st

\* A stop and a reconfiguration of the same service, each valid by itself, were
\* rejected together.
C13_witness ==
    /\ result = "MalformedConfigPropose"
    /\ Len(input.propose.changes) = 2
    /\ input.propose.changes[1].tag = "StopService"
    /\ input.propose.changes[2].tag = "Service"
    /\ input.propose.changes[1].instance_id = input.propose.changes[2].instance_id
    /\ ~violates_rule(input.propose.changes[1])
    /\ ~violates_rule(input.propose.changes[2])
    /\ st.pending_proposal = {}

----------------------------------------------------------------------------
(* Properties of the configuration transactions. *)

\* C14: at height H, a validator's proposal with actual_from = 0 is stored, if
\* accepted, with actual_from = H + 1; a proposal with 0 < actual_from <= H
\* fails with ActualFromIsPast and changes nothing; every proposal that is
\* stored has actual_from greater than the height H of its acceptance.
C14_actual_from ==
    \A a \in Authors, p \in ConfigProposes :
        LET out == propose_config_change(st, a, p) IN
        is_current_validator(a)
        => /\ (p.actual_from # 0 /\ p.actual_from <= st.height)
                 => out = Abort(st, "ActualFromIsPast")
           /\ out.status = "ActualFromIsPast"
                 => (p.actual_from # 0 /\ p.actual_from <= st.height)
           /\ out.status = "Ok"
                 => \E e \in out.state.pending_proposal :
                       /\ out.state.pending_proposal = {e}
                       /\ e.config_propose.actual_from =
                             (IF p.actual_from = 0 THEN st.height + 1 ELSE p.actual_from)
                       /\ e.config_propose.actual_from > st.height
                       /\ e.config_propose.changes = p.changes

\* At height 1 a proposal for a past height was just refused, and a proposal
\* with actual_from = 0 would be stored for height 2.
C14_witness ==
    /\ result = "ActualFromIsPast"
    /\ st.height = 1
    /\ \E a \in Authors, p \in ConfigProposes :
          /\ p.actual_from = 0
          /\ propose_config_change(st, a, p).status = "Ok"
          /\ \E e \in propose_config_change(st, a, p).state.pending_proposal :
                e.config_propose.actual_from = 2

\* The pending proposal is outdated: its application panicked and the hook
\* left it in place.
outdated_proposal_pending ==
    \E e \in st.pending_proposal : e.config_propose.actual_from <= st.height

\* C15: a validator's confirm_config_change records a vote only if a proposal
\* is pending, the vote carries its stored hash and H < actual_from; it fails
\* with ConfigProposeNotRegistered if no proposal is pending or the hash
\* differs, with DeadlineExceeded if H >= actual_from, and a failed vote
\* records no confirmation.
C15_confirm_config_change ==
    \A a \in Authors, h \in VoteHashes(st) :
        LET out == confirm_config_change(st, a, h)
            matching == {e \in st.pending_proposal : e.propose_hash = h}
        IN
        is_current_validator(a)
        => /\ matching = {} => out = Abort(st, "ConfigProposeNotRegistered")
           /\ (\E e \in matching : st.height >= e.config_propose.actual_from)
                 => out = Abort(st, "DeadlineExceeded")
           /\ out.status = "Ok"
                 => /\ \E e \in matching : st.height < e.config_propose.actual_from
                    /\ out.state =
                          [st EXCEPT !.config_confirms = @ \cup {<<h, a>>}]
           /\ out.status # "Ok"
                 => /\ out.state = st
                    /\ out.state.config_confirms = st.config_confirms

\* A vote for the outdated pending proposal was just refused with
\* DeadlineExceeded and recorded nothing, and a vote with another hash would be
\* refused with ConfigProposeNotRegistered.
C15_witness ==
    /\ result = "DeadlineExceeded"
    /\ outdated_proposal_pending
    /\ \E e \in st.pending_proposal :
          /\ ~confirmed_by(st.config_confirms, e.propose_hash, "v2")
          /\ confirm_config_change(st, "v2", e.propose_hash).status = "DeadlineExceeded"
    /\ confirm_config_change(st, "v2", WrongHash).status = "ConfigProposeNotRegistered"

\* A transaction that ends in an error leaves the state it was executed in.
unchanged_on_error(out) == out.status # "Ok" => out.state = st

\* The proposal fails after it has removed an outdated pending proposal.
fails_after_eviction(out) ==
    /\ out.status \in {"MalformedConfigPropose", "IncorrectConfigurationNumber"}
    /\ st.pending_proposal # {}
    /\ out.written.pending_proposal = {}

\* The report is refused the registration of the artifact after it has
\* written its confirmation and Succeed.
fails_after_succeed(out, a, r) ==
    /\ out.status = "RegistrationRefused"
    /\ confirmed_by(out.written.deploy_confirmations, r.request, a)
    /\ out.written.deploy_states[r.request] = Succeed

\* The report is refused the commit of the migration after it has written
\* its confirmation and scheduled the flush.
fails_after_schedule(out, a, r) ==
    /\ out.status = "CommitRefused"
    /\ confirmed_by(out.written.migration_confirmations, r.request, a)
    /\ r.request \in out.written.migrations_to_flush

\* The report is refused the rollback of the migration after it has written
\* Failed.
fails_after_failed(out, r) ==
    /\ out.status = "RollbackRefused"
    /\ is_failed(out.written.migration_states[r.request])
    /\ ~is_failed(st.migration_states[r.request])

----------------------------------------------------------------------------
(* Properties of deployments and migrations. *)

\* The last step was the hook that begins a block: the state is the one the
\* previous block left, with the hook's clean-up done.
after_block ==
    result \in {"Genesis", "Block", "ConfigApplied", "ConfigDiscarded",
                "ConfigFailed", "ConfigPanicked"}

\* C17: after every block, every deploy request in pending_deployments has the
\* state Pending and its artifact is not registered in the dispatcher.
C17_pending_deployments_are_pending ==
    after_block
    => \A a \in DOMAIN st.pending_deployments :
          LET D == st.pending_deployments[a] IN
          /\ contains(st.deploy_states, D)
          /\ st.deploy_states[D] = Pending
          /\ D.artifact \notin st.dispatcher_artifacts

version_kept(before, after, M) ==
    /\ contains(before.migration_states, M)
    /\ after.migration_states[M].version = before.migration_states[M].version

\* A Succeed state records the new version, and no transaction changes the
\* version of a state it leaves Pending or Failed.
version_kept_by_transactions ==
    /\ \A M \in DOMAIN st.migration_states :
          st.migration_states[M].phase = "Succeed"
          => st.migration_states[M].version = M.new_artifact.version
    /\ \A a \in Authors, M \in MigrationRequests, t \in MigrationTypes :
          LET out == request_migration(st, a, M, t) IN
          (out.state.migration_states # st.migration_states
              /\ out.state.migration_states[M].phase # "Succeed")
          => out.state.migration_states[M].version = st.instances[M.service]
    /\ \A a \in Authors, r \in MigrationResults, e \in ExtensionAnswers :
          LET out == report_migration_result(st, a, r, e) IN
          \A M \in DOMAIN out.state.migration_states :
              out.state.migration_states[M].phase # "Succeed"
              => version_kept(st, out.state, M)

\* The hook of the next block both flushes M and times it out: M is to flush
\* and, requested again since, pending and at its deadline.
flushed_and_timed_out(M) ==
    /\ M \in st.migrations_to_flush
    /\ M \in st.pending_migrations
    /\ deadline_exceeded(M, st.height + 1)

approved_migration_request(a, M) ==
    /\ is_current_validator(a)
    /\ contains(st.instances, M.service)
    /\ M.deadline_height >= st.height
    /\ migration_approved(st.mode, M, st.migration_requests \cup {<<M, a>>},
                          validator_count(st))

ok_reports(s, D) == confirmations(s.deploy_confirmations, D)

\* The report of `a` for D passes the gates of report_deploy_result.
report_is_processed(a, D) ==
    /\ is_current_validator(a)
    /\ contains(st.pending_deployments, D.artifact)
    /\ st.pending_deployments[D.artifact] = D
    /\ st.deploy_states[D].phase # "Failed"
    /\ D.deadline_height >= st.height

----------------------------------------------------------------------------
(* Properties of the Simple mode (SpecSimple). *)

\* The deploy request of `a` passes the gates and no request for its artifact
\* is pending.
fresh_deploy_request(a, d) ==
    /\ is_current_validator(a)
    /\ artifact_validate(d.artifact)
    /\ d.deadline_height >= st.height
    /\ d.artifact \notin st.dispatcher_artifacts
    /\ ~contains(st.pending_deployments, d.artifact)

\* The migration request of `a` passes the gates.
admissible_migration_request(a, M) ==
    /\ is_current_validator(a)
    /\ contains(st.instances, M.service)
    /\ M.deadline_height >= st.height

\* C22: in Simple mode one validator's action is enough.  A proposal accepted
\* by propose_config_change is approved by its proposer's vote alone and is
\* applied by the hook at its actual_from, no confirm_config_change being sent;
\* one request_artifact_deploy by a validator leaves the request Pending and in
\* pending_deployments; one request_migration by a validator approves the
\* request: the migration is initiated in that transaction and, when the
\* runtime starts it, is Pending and in pending_migrations.
C22_simple_mode_single_action ==
    st.mode = "Simple"
    => /\ \A e \in st.pending_proposal :
             /\ proposal_approved(st, e)
             /\ confirmations(st.config_confirms, e.propose_hash) = voters
             /\ Cardinality(voters) = 1
             /\ e.config_propose.actual_from = st.height + 1
                   => /\ hook_event(st) = "ConfigApplied"
                      /\ before_transactions(st).pending_proposal = {}
                      /\ before_transactions(st).consensus_config =
                            apply_changes_from(e.config_propose.changes, 1,
                                               st.consensus_config)
       /\ \A a \in Authors, p \in ConfigProposes :
             LET out == propose_config_change(st, a, p) IN
             out.status = "Ok"
             => \A e \in out.state.pending_proposal : proposal_approved(out.state, e)
       /\ \A a \in Authors, d \in DeployRequests :
             LET out == request_artifact_deploy(st, a, d) IN
             fresh_deploy_request(a, d)
             => /\ out.status = "Ok"
                /\ out.state.deploy_states[d] = Pending
                /\ out.state.pending_deployments[d.artifact] = d
       /\ \A a \in Authors, M \in MigrationRequests, t \in MigrationTypes :
             LET out == request_migration(st, a, M, t) IN
             admissible_migration_request(a, M)
             => /\ out.status = "Ok"
                /\ <<"initiate_migration", M.service>> \in out.calls
                /\ contains(out.state.migration_states, M)
                /\ t = "Async"
                      => /\ out.state.migration_states[M].phase = "Pending"
                         /\ M \in out.state.pending_migrations

\* With four validators, the proposal of one of them was applied without any
\* other vote, and a deploy request and a migration request of that validator
\* are pending.
C22_witness ==
    /\ st.mode = "Simple"
    /\ result = "ConfigApplied"
    /\ st.consensus_config = "c1"
    /\ \A x \in st.config_confirms : x[2] = "v1"
    /\ \E d \in DOMAIN st.deploy_states :
          /\ contains(st.pending_deployments, d.artifact)
          /\ st.pending_deployments[d.artifact] = d
          /\ st.deploy_states[d] = Pending
          /\ confirmations(st.deploy_requests, d) = {"v1"}
    /\ \E M \in st.pending_migrations :
          /\ st.migration_states[M].phase = "Pending"
          /\ confirmations(st.migration_requests, M) = {"v1"}

----------------------------------------------------------------------------
(* Properties of failed applications (SpecFailedApply). *)

\* What the changes of a proposal can take effect on.
configured(s) ==
    <<s.consensus_config, s.service_instances, s.active_artifacts,
      s.dispatcher_artifacts, s.instances>>

\* The pending proposal that the hook of the next block applies, if its
\* application fails on one of its changes.
failing_application ==
    {e \in applied_proposal(st, st.height + 1) :
        application_outcome_from(e.config_propose.changes, 1) # "Ok"}

\* What the application of the changes of `e` had written when it failed.
written_by_application(s, e) ==
    update_configs_from(e.config_propose.changes, 1, s).state

----------------------------------------------------------------------------
(* Properties of successive proposals (SpecConfig). *)

RECURSIVE confirmed_by_each(_, _, _)
\* The state after each of `authors` has sent confirm_config_change for the hash.
confirmed_by_each(s, propose_hash, authors) ==
    IF authors = {} THEN s
    ELSE LET b == CHOOSE x \in authors : TRUE IN
         confirmed_by_each(confirm_config_change(s, b, propose_hash).state,
                           propose_hash, authors \ {b})

RECURSIVE blocks_until(_, _)
\* The state when block H begins, no transaction being sent until then.
blocks_until(s, H) == IF s.height >= H THEN s ELSE blocks_until(before_transactions(s), H)

\* A validator proposes `changes` for the height `actual_from` with the current
\* configuration number, the other validators confirm, and the blocks up to
\* the proposal's actual_from are produced.
propose_confirm_apply(s, a, actual_from, changes) ==
    LET propose == [actual_from |-> actual_from,
                    configuration_number |-> s.configuration_number,
                    changes |-> changes]
        out == propose_config_change(s, a, propose)
        stored == propose_with_actual_from(s, propose)
        others == validator_keys(s.consensus_config) \ {a}
        confirmed == confirmed_by_each(out.state, object_hash(stored), others)
    IN  [accepted |-> out.status = "Ok",
         pending |-> out.state.pending_proposal,
         confirmable |->
             \A b \in others :
                 confirm_config_change(out.state, b, object_hash(stored)).status = "Ok",
         approved |-> \A e \in confirmed.pending_proposal : proposal_approved(confirmed, e),
         target |-> apply_changes_from(changes, 1, s.consensus_config),
         state |-> blocks_until(confirmed, stored.actual_from)]

\* The change lists proposed in turn: to three validators, and back to four.
SuccessiveChangeLists == {<<ConsensusChange("c1")>>, <<ConsensusChange("c0")>>}

\* The proposal was accepted, could be confirmed by every other validator and
\* was applied at its actual_from, leaving no proposal pending.
applied_in_turn(s, round) ==
    /\ round.accepted
    /\ round.pending # {}
    /\ round.confirmable
    /\ round.approved
    /\ round.state.pending_proposal = {}
    /\ round.state.consensus_config = round.target
    /\ round.state.configuration_number = s.configuration_number + 1

\* C24: once no proposal is pending (the last one expired without a quorum and
\* was removed, or was applied), a validator's proposal with a future
\* actual_from (or the default one) and the current configuration number is
\* accepted, can be confirmed and is applied at its actual_from; a further
\* proposal is then accepted, confirmed and applied in the same way, and no
\* proposal is pending after each application.
C24_propose_again ==
    st.pending_proposal = {}
    => \A a \in validator_keys(st.consensus_config),
          af \in {0, st.height + 1, st.height + 2},
          first \in SuccessiveChangeLists :
          LET one == propose_confirm_apply(st, a, af, first) IN
          /\ applied_in_turn(st, one)
          /\ \A b \in validator_keys(one.state.consensus_config),
                second \in SuccessiveChangeLists \ {first} :
                applied_in_turn(one.state,
                                propose_confirm_apply(one.state, b, 0, second))

\* A proposal expired without a quorum at height 1 and was removed; the next
\* one, proposed with the next configuration number and confirmed, has just
\* been applied at height 2, and no proposal is pending.
C24_witness ==
    /\ st.mode = "Decentralized"
    /\ result = "ConfigApplied"
    /\ st.height = 2
    /\ st.pending_proposal = {}
    /\ st.configuration_number = 2
    /\ \E x \in st.config_confirms :
          x[1][2] = 1 /\ Cardinality(confirmations(st.config_confirms, x[1])) = 1
    /\ \E x \in st.config_confirms :
          x[1][2] = 2 /\ Cardinality(confirmations(st.config_confirms, x[1])) >= 3

----------------------------------------------------------------------------
(* Properties of the TemporaryDB (SpecDatabase). *)

\* What a reader observes through a snapshot: Snapshot::get at every address
\* and key.
observed(snapshot) ==
    [resolved \in {MetadataAddress, IndexAddress}, key \in DbKeys |->
        snapshot_get(snapshot, resolved, key)]

\* C25: a snapshot of the TemporaryDB is consistent: if a merge or a clear was
\* running when it was taken, it holds the tables as they were before that
\* operation or as the operation leaves them, at every address of the patch,
\* never a part of its changes; and what is observed through a snapshot does
\* not change when later merges and clears are executed.
C25_consistent_snapshots ==
    /\ [](db.snapshot.taken
            => db.snapshot.snapshot \in {db.snapshot.before, db.snapshot.after})
    /\ [][ (db.snapshot.taken /\ db.reader = "idle" /\ db'.reader = "idle")
             => /\ db'.snapshot = db.snapshot
                /\ observed(db'.snapshot.snapshot) = observed(db.snapshot.snapshot) ]_vars

\* A snapshot was taken after a patch had written "x" to both addresses, and
\* a later merge has by now rewritten one address and not yet the other: the
\* snapshot still shows "x" at both.
C25_witness ==
    /\ db.snapshot.taken
    /\ \A resolved \in {MetadataAddress, IndexAddress}, key \in DbKeys :
          snapshot_get(db.snapshot.snapshot, resolved, key) = "x"
    /\ db.writer.pc = "merge"
    /\ Cardinality(db.writer.todo) = 1
    /\ \E resolved \in {MetadataAddress, IndexAddress}, key \in DbKeys :
          snapshot_get(db.inner, resolved, key) # "x"
    /\ \E resolved \in {MetadataAddress, IndexAddress}, key \in DbKeys :
          snapshot_get(db.inner, resolved, key) = "x"

----------------------------------------------------------------------------
(* Properties of failed deployments and migrations. *)

DeployErrors == DeployOutcomes \ {"Ok"}

\* C26: one validator's Err(e) report for the pending request D at a height
\* H <= deadline_height leaves deploy_states[D] = Failed{H, e} and D.artifact
\* out of pending_deployments, however many Ok reports are recorded, touches
\* nothing else and calls nothing; and while D is Failed no report for D, Ok
\* or not, registers the artifact or changes anything.
C26_one_failure_fails_the_deploy ==
    /\ \A a \in Authors, D \in DeployRequests, e \in DeployErrors,
          x \in ExtensionAnswers :
          LET out == report_deploy_result(st, a, [request |-> D, result |-> e], x) IN
          report_is_processed(a, D)
          => /\ out.status = "Ok"
             /\ out.calls = {}
             /\ out.state =
                   [st EXCEPT
                      !.deploy_states = put(@, D, Failed(st.height, e)),
                      !.pending_deployments = remove(@, D.artifact)]
             /\ out.state.deploy_states[D] = Failed(st.height, e)
             /\ ~contains(out.state.pending_deployments, D.artifact)
             /\ \A b \in Authors, y \in ExtensionAnswers :
                   LET later == report_deploy_result(out.state, b,
                                                     [request |-> D, result |-> "Ok"], y)
                   IN  later.calls = {} /\ later.state = out.state
    /\ \A D \in DOMAIN st.deploy_states :
          is_failed(st.deploy_states[D])
          => \A b \in Authors, r \in DeployOutcomes, x \in ExtensionAnswers :
                LET later == report_deploy_result(st, b, [request |-> D, result |-> r], x)
                IN  later.calls = {} /\ later.state = st

\* One validator reported Ok, the other has just reported an error: the
\* request is Failed at this height, not pending, and the artifact is unknown
\* to the dispatcher.
C26_witness ==
    /\ result = "Ok"
    /\ calls = {}
    /\ \E D \in DOMAIN st.deploy_states :
          /\ st.deploy_states[D] = Failed(st.height, "DeployError")
          /\ ok_reports(st, D) = {"v1"}
          /\ ~contains(st.pending_deployments, D.artifact)
          /\ D.artifact \notin st.dispatcher_artifacts
          /\ registrations[D.artifact] = "never"

\* C27: a report on a request that already failed is a silent no-op: a
\* validator's report_deploy_result for a request whose deploy state is
\* Failed, and report_migration_result for a request whose migration state is
\* Failed, return Ok whatever the reported result and whatever the height,
\* after the deadline too, change nothing in the schema and call no extension.
C27_reports_on_failed_requests ==
    \A a \in Authors :
        is_current_validator(a)
        => /\ \A D \in DOMAIN st.deploy_states, r \in DeployOutcomes,
                 x \in ExtensionAnswers :
                 is_failed(st.deploy_states[D])
                 => report_deploy_result(st, a, [request |-> D, result |-> r], x)
                        = Done(st, {})
           /\ \A M \in DOMAIN st.migration_states, r \in MigrationOutcomes,
                 x \in ExtensionAnswers :
                 is_failed(st.migration_states[M])
                 => report_migration_result(st, a, [request |-> M, status |-> r], x)
                        = Done(st, {})

\* After the deadlines of a failed deploy request and of a failed migration
\* request, a report has just returned Ok and called nothing; at this height
\* only a report on a failed request returns Ok.
C27_witness ==
    /\ result = "Ok"
    /\ calls = {}
    /\ st.height = 2
    /\ \E D \in DOMAIN st.deploy_states :
          is_failed(st.deploy_states[D]) /\ D.deadline_height < st.height
    /\ \E M \in DOMAIN st.migration_states :
          is_failed(st.migration_states[M]) /\ M.deadline_height < st.height
    /\ \A D \in DOMAIN st.deploy_states : D.deadline_height < st.height
    /\ \A M \in DOMAIN st.migration_states : M.deadline_height < st.height

----------------------------------------------------------------------------
(* Properties of the initiation of migrations. *)

\* The request M was approved and initialised by an earlier transaction.
already_approved(M) ==
    /\ contains(st.migration_states, M)
    /\ migration_approved(st.mode, M, st.migration_requests, validator_count(st))

\* C28: migration_states[M] is initialised, M is put into pending_migrations
\* and initiate_migration is called only by the request_migration in which the
\* approval becomes true; a later request_migration(M) of a validator, sent
\* when M is already approved, only records the author's confirmation: it
\* leaves migration_states[M] (phase and hash) and pending_migrations as they
\* are and does not call initiate_migration.
C28_migration_initialised_once ==
    \A a \in Authors, M \in MigrationRequests, t \in MigrationTypes :
        LET out == request_migration(st, a, M, t) IN
        (is_current_validator(a) /\ already_approved(M) /\ out.status = "Ok")
        => /\ out.calls = {}
           /\ out.state.migration_states = st.migration_states
           /\ out.state.pending_migrations = st.pending_migrations
           /\ out.state = [st EXCEPT !.migration_requests = confirm(@, M, a)]

\* The request of `a` is approved by this very transaction and the runtime
\* refuses to initiate the migration.
failed_start(a, M, t) ==
    /\ admissible_migration_request(a, M)
    /\ migration_approved(st.mode, M, confirm(st.migration_requests, M, a),
                          validator_count(st))
    /\ initiate_migration(st, M, t) = "InitError"

\* C29: when initiate_migration returns an error in the request_migration
\* that approves M, the transaction returns Ok and its writes persist: the
\* author's confirmation is recorded, migration_states[M] is Failed{H, e} with
\* the data version of the instance and no hash, M is not in
\* pending_migrations, and the only call made is initiate_migration:
\* rollback_migration is not called.
C29_failed_start_is_soft ==
    \A a \in Authors, M \in MigrationRequests, t \in MigrationTypes :
        LET out == request_migration(st, a, M, t) IN
        failed_start(a, M, t)
        => /\ out.status = "Ok"
           /\ out.calls = {<<"initiate_migration", M.service>>}
           /\ <<"rollback_migration", M.service>> \notin out.calls
           /\ M \notin out.state.pending_migrations
           /\ out.state.migration_states[M] =
                 [phase |-> "Failed", height |-> st.height, error |-> "InitError",
                  version |-> st.instances[M.service], hash |-> NoHash]
           /\ out.state =
                 [st EXCEPT
                    !.migration_requests = confirm(@, M, a),
                    !.migration_states = put(@, M, out.state.migration_states[M]),
                    !.pending_migrations = @ \ {M}]

\* The first request for M was approved and its initiation failed: the
\* transaction returned Ok, M is Failed at this height with InitError, not
\* pending, its requester is recorded and no rollback was called.
C29_witness ==
    /\ result = "Ok"
    /\ calls = {<<"initiate_migration", "svc">>}
    /\ \E M \in DOMAIN st.migration_states :
          /\ st.migration_states[M] =
                [phase |-> "Failed", height |-> st.height, error |-> "InitError",
                 version |-> GenesisVersion, hash |-> NoHash]
          /\ M \notin st.pending_migrations
          /\ Cardinality(confirmations(st.migration_requests, M)) = 1
          /\ st.instances[M.service] = GenesisVersion

\* The state of a request that the hook timed out.
timed_out(state) == is_failed(state) /\ state.error = "DeadlineExceeded"

deploy_is_pending(s, d) ==
    d.artifact \in DOMAIN s.pending_deployments /\ s.pending_deployments[d.artifact] = d

\* No pending request is past its deadline.
pending_within_deadline(s) ==
    /\ \A a \in DOMAIN s.pending_deployments :
           s.pending_deployments[a].deadline_height >= s.height
    /\ \A m \in s.pending_migrations : m.deadline_height >= s.height

\* The requests that the hook of the next block finds past their deadline.
outdated_deployments(s) ==
    {d \in DeployRequests : deploy_is_pending(s, d) /\ d.deadline_height < s.height + 1}
outdated_migrations(s) ==
    {m \in s.pending_migrations : m.deadline_height < s.height + 1}

\* A step of the hook removes the migrations past their deadline and marks them.
hook_times_out_migrations ==
    st'.height # st.height =>
        \A m \in outdated_migrations(st) :
            /\ m \notin st'.pending_migrations
            /\ timed_out(st'.migration_states[m])
            /\ st'.migration_states[m].height = st'.height

\* A step of the hook removes the deployments past their deadline and marks
\* every one of them.
hook_times_out_deployments ==
    st'.height # st.height =>
        \A d \in outdated_deployments(st) :
            /\ ~deploy_is_pending(st', d)
            /\ st'.deploy_states[d] = Failed(st'.height, "DeadlineExceeded")

\* A transaction marks no request as timed out.
transactions_never_time_out ==
    st'.height = st.height =>
        /\ \A d \in DOMAIN st'.deploy_states :
               timed_out(st'.deploy_states[d]) =>
                   d \in DOMAIN st.deploy_states /\ timed_out(st.deploy_states[d])
        /\ \A m \in DOMAIN st'.migration_states :
               timed_out(st'.migration_states[m]) =>
                   m \in DOMAIN st.migration_states /\ timed_out(st.migration_states[m])

\* Every pending request leaves the pending sets.
pending_requests_leave ==
    /\ \A d \in ValidDeployRequests :
           deploy_is_pending(st, d) ~> ~deploy_is_pending(st, d)
    /\ \A m \in ValidMigrationRequests :
           (m \in st.pending_migrations) ~> (m \notin st.pending_migrations)

\* C30: after the hook of block H no pending request has a deadline below H:
\* each such request was marked Failed{H, DeadlineExceeded} and removed; every
\* approved request eventually leaves the pending sets; and no transaction
\* marks a request DeadlineExceeded, only the hook does.
C30_outdated_requests_time_out ==
    /\ [](pending_within_deadline(st))
    /\ [][hook_times_out_migrations /\ hook_times_out_deployments]_vars
    /\ [][transactions_never_time_out]_vars
    /\ pending_requests_leave

\* A block whose hook timed out a deployment and a migration.
C30_witness ==
    /\ st.height > 0
    /\ \E d \in DOMAIN st.deploy_states :
           /\ st.deploy_states[d] = Failed(st.height, "DeadlineExceeded")
           /\ ~deploy_is_pending(st, d)
    /\ \E m \in DOMAIN st.migration_states :
           /\ timed_out(st.migration_states[m])
           /\ st.migration_states[m].height = st.height
           /\ m \notin st.pending_migrations

\* The schema `s` with the author's confirmation of request d and nothing else.
only_confirmation_added(s, a, d) ==
    [s EXCEPT !.deploy_requests = @ \cup {<<d, a>>}]

\* What request_artifact_deploy(d) by validator a must answer in state st, the
\* checks taken in the order of the claim.
deploy_request_answer(a, d) ==
    LET out == request_artifact_deploy(st, a, d) IN
    IF ~artifact_validate(d.artifact)
    THEN out.status = "InvalidArtifactId" /\ out.state = st
    ELSE IF d.deadline_height < st.height
    THEN out.status = "ActualFromIsPast" /\ out.state = st
    ELSE IF d.artifact \in st.dispatcher_artifacts
    THEN out.status = "AlreadyDeployed" /\ out.state = st
    ELSE IF d.artifact \in DOMAIN st.pending_deployments
    THEN IF <<d, a>> \in st.deploy_requests
         THEN out.status = "DeployRequestAlreadyRegistered" /\ out.state = st
         ELSE /\ out.status = "Ok"
              /\ out.state = only_confirmation_added(st, a, d)
              /\ out.state.deploy_states = st.deploy_states
              /\ out.state.pending_deployments = st.pending_deployments
    ELSE out.status = "Ok"

\* C31: request_artifact_deploy(D) by a validator at height H fails with
\* InvalidArtifactId for an invalid identifier, with ActualFromIsPast when
\* D.deadline_height < H (deadline_height = H is accepted), with AlreadyDeployed
\* when the artifact is in the dispatcher, with DeployRequestAlreadyRegistered
\* when the artifact is pending and the author has confirmed this D; when the
\* artifact is pending and the author has not confirmed D, only the
\* confirmation is added.
C31_request_artifact_deploy_errors ==
    \A a \in Validators, d \in DeployRequests :
        is_current_validator(a) => deploy_request_answer(a, d)

\* A duplicate request was refused while the artifact is pending, another
\* validator has not confirmed the pending request yet, and a request whose
\* deadline is the current height is still accepted.
C31_witness ==
    /\ result = "DeployRequestAlreadyRegistered"
    /\ st.height > 0
    /\ \E a \in Validators, d \in DeployRequests :
           /\ is_current_validator(a)
           /\ deploy_is_pending(st, d)
           /\ d.artifact \notin st.dispatcher_artifacts
           /\ <<d, a>> \notin st.deploy_requests
           /\ d.deadline_height = st.height
           /\ request_artifact_deploy(st, a, d).status = "Ok"

\* Request d is approved in state s once the author's confirmation is counted.
approved_with(s, a, d) ==
    Cardinality({b \in Authors : <<d, b>> \in s.deploy_requests \cup {<<d, a>>}})
        >= (IF s.mode = "Simple" THEN 1 ELSE (2 * validator_count(s)) \div 3 + 1)

\* request_artifact_deploy(d) by validator a promotes d exactly when it passes
\* its checks, the artifact is not pending and d is approved with the
\* confirmation; a promoted request is Pending and stored under its artifact.
promotes_exactly_when_approved(a, d) ==
    LET out == request_artifact_deploy(st, a, d)
        promoted == deploy_is_pending(out.state, d) /\ ~deploy_is_pending(st, d)
    IN  /\ promoted <=>
              /\ out.status = "Ok"
              /\ d.artifact \notin DOMAIN st.pending_deployments
              /\ approved_with(st, a, d)
        /\ promoted => out.state.deploy_states[d] = Pending
        /\ d.artifact \in DOMAIN st.pending_deployments =>
              /\ out.state.pending_deployments = st.pending_deployments
              /\ out.state.deploy_states = st.deploy_states

\* The key of every pending deployment is the artifact of the stored request.
pending_deployments_keyed_by_artifact(s) ==
    \A k \in DOMAIN s.pending_deployments : s.pending_deployments[k].artifact = k

\* A step that makes a request pending is a successful transaction at the same
\* height, for an artifact that was not pending, and leaves the request Pending.
promotion_step ==
    \A d \in DeployRequests :
        deploy_is_pending(st', d) /\ ~deploy_is_pending(st, d) =>
            /\ result' = "Ok"
            /\ st'.height = st.height
            /\ d.artifact \notin DOMAIN st.pending_deployments
            /\ <<"start_artifact_registration", d.artifact>> \notin calls'
            /\ st'.deploy_states[d] = Pending

\* C32: a deploy request D becomes approved exactly in the
\* request_artifact_deploy transaction whose confirmation makes deploy_approved
\* true while D.artifact is not in pending_deployments, and then
\* deploy_states[D] = Pending and pending_deployments[D.artifact] = D; the key
\* of a pending request is its artifact, and a different request for an
\* artifact that is already pending is never promoted.
C32_promotion_of_deploy_requests ==
    /\ [](\A a \in Validators, d \in DeployRequests :
             is_current_validator(a) => promotes_exactly_when_approved(a, d))
    /\ [](pending_deployments_keyed_by_artifact(st))
    /\ [][promotion_step]_vars

\* A request is pending, a different request for the same artifact has been
\* confirmed by every validator, and it has no state.
C32_witness ==
    \E d \in DeployRequests, e \in DeployRequests :
        /\ deploy_is_pending(st, d)
        /\ st.deploy_states[d] = Pending
        /\ e # d /\ e.artifact = d.artifact
        /\ \A a \in validator_keys(st.consensus_config) : <<e, a>> \in st.deploy_requests
        /\ e \notin DOMAIN st.deploy_states

\* The request has no Failed state.
not_failed(s, d) == d \notin DOMAIN s.deploy_states \/ s.deploy_states[d].phase # "Failed"

\* C33: report_deploy_result(R) for a request that is not failed is processed
\* only if pending_deployments holds, for R.request.artifact, an entry equal to
\* R.request; otherwise it fails with DeployRequestNotRegistered and records
\* no confirmation, so a report for a different request of the same artifact
\* never counts towards the pending one.
C33_report_needs_the_pending_request ==
    \A a \in Validators, r \in DeployResults, x \in ExtensionAnswers :
        LET out == report_deploy_result(st, a, r, x) IN
        is_current_validator(a) /\ not_failed(st, r.request) =>
            IF deploy_is_pending(st, r.request)
            THEN /\ out.status \in {"Ok", "DeadlineExceeded", "RegistrationRefused"}
                 /\ out.status = "RegistrationRefused" => x = "Refused"
            ELSE out.status = "DeployRequestNotRegistered" /\ out.state = st

\* A report for another request of a pending artifact was refused: the pending
\* request is not confirmed by anyone, the reported one is not failed.
C33_witness ==
    /\ result = "DeployRequestNotRegistered"
    /\ \E d \in DeployRequests, e \in DeployRequests :
           /\ deploy_is_pending(st, d)
           /\ e # d /\ e.artifact = d.artifact
           /\ not_failed(st, e)
           /\ \A a \in Validators : <<d, a>> \notin st.deploy_confirmations
           /\ \E a \in Validators :
                  is_current_validator(a)
                  /\ report_deploy_result(st, a, [request |-> e, result |-> "Ok"], "Ok").status
                         = "DeployRequestNotRegistered"
                  /\ report_deploy_result(st, a, [request |-> d, result |-> "Ok"], "Ok").status
                         = "Ok"

\* Request d has a Failed state in s.
deploy_failed(s, d) == d \in DOMAIN s.deploy_states /\ is_failed(s.deploy_states[d])

\* C35: Failed is an absorbing state of a deploy request: once deploy_states[D]
\* is Failed, no later transaction sets it back to Pending or to Succeed or
\* re-inserts D into pending_deployments.
C35_failed_deploy_is_absorbing ==
    [][\A d \in DeployRequests :
          deploy_failed(st, d) => deploy_failed(st', d) /\ ~deploy_is_pending(st', d)]_vars

\* Request d succeeded and its artifact went to the dispatcher.
deploy_succeeded(s, d) ==
    /\ d \in DOMAIN s.deploy_states
    /\ s.deploy_states[d] = Succeed
    /\ d.artifact \in s.dispatcher_artifacts

\* C36: Succeed is an absorbing state of a deploy request: once
\* deploy_states[D] = Succeed and the registration has started, no later
\* report_deploy_result for D, an Err report or a repeated Ok report, changes
\* deploy_states[D] to Failed or otherwise modifies the supervisor state.
C36_succeeded_deploy_is_absorbing ==
    \A a \in Validators, r \in DeployResults, x \in ExtensionAnswers :
        is_current_validator(a) /\ deploy_succeeded(st, r.request) =>
            LET out == report_deploy_result(st, a, r, x) IN
            /\ out.state.deploy_states[r.request] = Succeed
            /\ out.state = st

\* The outcome calls commit_migration for the service of request m.
commits(out, m) ==
    \E h \in Hashes : <<"commit_migration", m.service, h>> \in out.calls

\* C37: for every migration request M, commit_migration is called at most
\* once over any sequence of report_migration_result transactions: once M
\* reached the confirmation threshold (commit_migration called, M in
\* migrations_to_flush), no repeated or late Ok report calls it again.
C37_commit_migration_at_most_once ==
    \A a \in Validators, r \in MigrationResults, x \in ExtensionAnswers :
        is_current_validator(a) /\ r.request \in st.migrations_to_flush =>
            ~commits(report_migration_result(st, a, r, x), r.request)

\* C38: once the confirmation threshold of a migration request M has been
\* reached (M in migrations_to_flush, commit_migration called), no later
\* report_migration_result for M marks M as Failed or calls
\* rollback_migration for its service; and no M is ever both Failed and in
\* migrations_to_flush.
C38_confirmed_migration_never_fails ==
    /\ \A a \in Validators, r \in MigrationResults, x \in ExtensionAnswers :
           is_current_validator(a) /\ r.request \in st.migrations_to_flush =>
               LET out == report_migration_result(st, a, r, x) IN
               /\ <<"rollback_migration", r.request.service>> \notin out.calls
               /\ ~is_failed(out.state.migration_states[r.request])
    /\ \A m \in st.migrations_to_flush : ~is_failed(st.migration_states[m])

\* The proposal p as the supervisor stores it at the height of state s.
rewritten(s, p) ==
    IF p.actual_from = 0 THEN [p EXCEPT !.actual_from = s.height + 1] ELSE p

\* An accepted proposal p of validator a is stored with the hash of its
\* rewritten form, which also keys the proposer's vote; a vote of another
\* validator is accepted with that hash and refused with p's own hash when
\* the two differ.
stored_under_hash_of_rewritten(a, p) ==
    LET out == propose_config_change(st, a, p)
        stored_hash == object_hash(rewritten(st, p))
    IN  out.status = "Ok" =>
            /\ out.state.pending_proposal =
                   {[config_propose |-> rewritten(st, p), propose_hash |-> stored_hash]}
            /\ <<stored_hash, a>> \in out.state.config_confirms
            /\ \A b \in validator_keys(out.state.consensus_config) \ {a} :
                   /\ confirm_config_change(out.state, b, stored_hash).status = "Ok"
                   /\ p.actual_from = 0 =>
                          /\ object_hash(p) # stored_hash
                          /\ <<object_hash(p), a>> \notin out.state.config_confirms
                          /\ confirm_config_change(out.state, b, object_hash(p)).status
                                 = "ConfigProposeNotRegistered"

\* C39: the propose_hash stored with pending_proposal and used to key the
\* proposer's vote is the hash of the proposal as stored, after actual_from = 0
\* has been replaced by H + 1; for a proposal submitted with actual_from = 0 a
\* vote carrying the hash of the proposal as submitted is rejected with
\* ConfigProposeNotRegistered and only the hash of the rewritten proposal is
\* accepted.
C39_hash_of_the_stored_proposal ==
    \A a \in Validators, p \in ConfigProposes :
        is_current_validator(a) => stored_under_hash_of_rewritten(a, p)

\* A vote with the hash of the proposal as submitted (actual_from = 0) was just
\* refused, the proposal being pending for the next height with its
\* proposer's vote only.
C39_witness ==
    /\ result = "ConfigProposeNotRegistered"
    /\ Cardinality(voters) = 1
    /\ \E e \in st.pending_proposal :
           /\ e.config_propose.actual_from = st.height + 1
           /\ e.propose_hash = object_hash(e.config_propose)
           /\ \E b \in validator_keys(st.consensus_config) \ voters :
                  /\ confirm_config_change(
                         st, b, object_hash([e.config_propose EXCEPT !.actual_from = 0])).status
                        = "ConfigProposeNotRegistered"
                  /\ confirm_config_change(st, b, e.propose_hash).status = "Ok"

----------------------------------------------------------------------------
(* The effect of a merge. *)

\* What the patch says of a key of an address: the value put, nothing if the
\* key is deleted or the address cleared, and otherwise what was there.
named_by(inner, patch, resolved, key) ==
    IF ~contains(patch, resolved) THEN snapshot_get(inner, resolved, key)
    ELSE IF contains(patch[resolved].data, key)
         THEN patch[resolved].data[key].value
    ELSE IF patch[resolved].cleared THEN "none"
    ELSE snapshot_get(inner, resolved, key)

\* The tables of the addresses of one name in one table, as a column family
\* holds them.
column_family(inner, name) ==
    LET tables == {resolved \in DOMAIN inner : resolved.name = name}
        holder(stored) == CHOOSE resolved \in tables : contains(inner[resolved], stored)
    IN  [stored \in UNION {DOMAIN inner[resolved] : resolved \in tables} |->
            inner[holder(stored)][stored]]

\* The keys of a table that carry the identifier of the address.
keys_of(resolved, collection) ==
    {stored \in DOMAIN collection :
        Len(stored) >= ID_SIZE /\ SubSeq(stored, 1, ID_SIZE) = id_to_bytes(resolved)}

\* C40: a merge changes exactly what the patch names. At an address of the
\* patch a later get returns the value of a Put, nothing for a Delete, nothing
\* for any other key if the address is marked cleared, and what it returned
\* before otherwise; the tables of the addresses that are not in the patch are
\* left as they were, and no table but those of the patch is added. Clearing
\* an address with an identifier removes, from a table that holds the keys of
\* several identifiers, the keys of that identifier and no other.
C40_merge_changes_what_the_patch_names ==
    /\ \A patch \in StoragePatches :
          LET after == merge(db.inner, patch) IN
          /\ \A resolved \in StorageAddresses \cup {DefaultAddress}, key \in StoredKeys :
                snapshot_get(after, resolved, key)
                    = named_by(db.inner, patch, resolved, key)
          /\ DOMAIN after = DOMAIN db.inner \cup DOMAIN patch
          /\ \A resolved \in DOMAIN db.inner \ DOMAIN patch :
                after[resolved] = db.inner[resolved]
    /\ \A resolved \in {IndexAddress, SiblingAddress} :
          LET family == column_family(db.inner, resolved.name)
              left == cleared_collection(resolved, family)
          IN  /\ DOMAIN left = DOMAIN family \ keys_of(resolved, family)
              /\ \A stored \in DOMAIN left : left[stored] = family[stored]

\* Both indexes and the metadata of the database hold values, and a patch
\* that clears the index and puts one key leaves the index with that key
\* alone, where it had others before.
C40_witness ==
    /\ \A resolved \in {DbMetadataAddress, IndexAddress, SiblingAddress} :
          contains(db.inner, resolved) /\ db.inner[resolved] # EmptyMap
    /\ keys_of(SiblingAddress, column_family(db.inner, "index")) # {}
    /\ \E patch \in IndexPatches, key \in DbKeys :
          /\ patch[IndexAddress].cleared
          /\ DOMAIN patch[IndexAddress].data = {key}
          /\ patch[IndexAddress].data[key].change = "Put"
          /\ Cardinality(DOMAIN db.inner[IndexAddress]) >= 2
          /\ DOMAIN merge(db.inner, patch)[IndexAddress] = {keyed(IndexAddress, key)}

----------------------------------------------------------------------------
(* Iteration over a snapshot. *)

\* The entries of an address from a lower bound on, as Snapshot::get returns
\* them key by key.
entries_from(snapshot, name, from) ==
    {<<key, snapshot_get(snapshot, name, key)>> :
        key \in {k \in StoredKeys : ~bytes_less(k, from)
                                 /\ snapshot_get(snapshot, name, k) # "none"}}

\* The entries of a sequence, and its keys in strictly ascending order.
yielded_entries(yielded) == {yielded.entries[i] : i \in 1 .. Len(yielded.entries)}
strictly_ascending(yielded) ==
    \A i, j \in 1 .. Len(yielded.entries) :
        i < j => bytes_less(yielded.entries[i][1], yielded.entries[j][1])

\* The iterator of an address over the table of its whole column family.
iter_family(snapshot, name, from) ==
    LET family == column_family(snapshot, name.name) IN
    iterator_next(family, range(family, keyed(name, from)), id_to_bytes(name), 1)

\* C34: through a snapshot, iter(name, from) yields exactly the entries of the
\* address whose key is at or after `from`, each once, with the keys as they
\* were written (without the identifier of the address) and in strictly
\* ascending lexicographic order of their bytes, whatever merges produced the
\* tables; an address that was never written yields nothing. Over a table
\* that holds the keys of several addresses of a column family, the iterator
\* yields the same entries: it ends at the first key of another address.
C34_iter_yields_the_entries_in_key_order ==
    db.snapshot.taken =>
        \A name \in StorageAddresses, from \in DbFroms :
            LET yielded == iter(db.snapshot.snapshot, name, from) IN
            /\ ~yielded.panicked
            /\ yielded_entries(yielded) = entries_from(db.snapshot.snapshot, name, from)
            /\ strictly_ascending(yielded)
            /\ (has_id(name) /\ contains(db.snapshot.snapshot, name))
                  => iter_family(db.snapshot.snapshot, name, from) = yielded

\* A snapshot in which the index holds all three keys and its sibling and the
\* metadata of the database hold keys too: the iteration of the index from
\* <<1, 0>> yields two entries, <<1, 0>> first, and leaves out <<1>> and the
\* sibling's keys, also now that the index was emptied in the database.
C34_witness ==
    /\ db.snapshot.taken
    /\ \A key \in DbKeys : snapshot_get(db.snapshot.snapshot, IndexAddress, key) # "none"
    /\ \E key \in DbKeys : snapshot_get(db.snapshot.snapshot, SiblingAddress, key) # "none"
    /\ snapshot_get(db.snapshot.snapshot, DbMetadataAddress, VersionKey) # "none"
    /\ db.inner[IndexAddress] = EmptyMap
    /\ Len(iter(db.snapshot.snapshot, IndexAddress, <<1, 0>>).entries) = 2
    /\ iter(db.snapshot.snapshot, IndexAddress, <<1, 0>>).entries[1][1] = <<1, 0>>
    /\ Len(iter(db.snapshot.snapshot, DbMetadataAddress, <<>>).entries) = 1

====
